---- MODULE Spec2Model ----
(***************************************************************************)
(* A model of the daily stock news digest (KitchThomas/stockNesMonitor).   *)
(*                                                                         *)
(* Two entry points are modelled:                                          *)
(*   mode = "run"  main() -> run_digest(): the whole batch                 *)
(*   mode = "sum"  one direct call of summarize_stock_news(), as           *)
(*                 tests/test_run.py and the module's __main__ make it     *)
(*                                                                         *)
(* Texts (markdown summaries) are sequences of string tokens, so that the  *)
(* header, the failure marker and the reason of a text can be told apart.  *)
(* A token "zh:..." stands for the Chinese literal of the source with that *)
(* meaning, "[warning] " for its warning sign.                             *)
(*                                                                         *)
(* The exception classes come from the anthropic package.  There,          *)
(* AuthenticationError and RateLimitError derive from APIStatusError, and  *)
(* APITimeoutError from APIConnectionError, which both derive from         *)
(* APIError: the clause "except APIError" of the model loop                *)
(* (ai_summarizer.py:200) therefore catches all of them.                   *)
(***************************************************************************)
EXTENDS Integers, Sequences, FiniteSets, TLC

VARIABLES
    mode,         \* entry point: "run" or "sum"
    \* ---- run_digest (main.py)
    cfg,          \* the Config class attributes (config.py:16-44)
    is_test,      \* "--test" in sys.argv (main.py:199)
    pc,           \* position of run_digest / main
    symbols,      \* local `symbols` of run_digest
    idx,          \* index of the loop over symbols in the current step
    news_data,    \* dict symbol -> news list
    stock_info,   \* dict symbol -> snapshot
    summaries,    \* dict symbol -> markdown text
    html_report,  \* the report built by build_html_report, or NoReport
    email_sent,   \* local email_sent (line 162): <<>> until send_email returns
    result,       \* the dictionary run_digest returns, or NoResult
    exit_code,    \* the exit code of the process, or -1 while it runs
    smtp,         \* what the SMTP server saw: logins and the messages sent
    touched,      \* the external services contacted so far
    seen,         \* what was observed of the run, per symbol: fetch_raised, the
                  \* symbols for which every news source asked raised;
                  \* info_raised, those whose ticker.info raised; sites, the
                  \* return statement each summary came from
    \* ---- summarize_stock_news (ai_summarizer.py:112-275)
    call,         \* the arguments of the invocation in progress, or NoCall
    spc,          \* its position: "idle", "entry", "model", "returned"
    attempt,      \* loop variable of the retry loop (line 162)
    model_ix,     \* 1-based index into models_to_try of the next model
    model_error,  \* local model_error (line 184)
    last_error,   \* local last_error (line 161)
    ret,          \* the value returned, with the return statement taken
    probe         \* observation of the invocation: calls, waits, clients

vars == <<mode, cfg, is_test, pc, symbols, idx, news_data, stock_info, summaries,
          html_report, email_sent, result, exit_code, smtp, touched, seen,
          call, spc, attempt, model_ix, model_error, last_error, ret, probe>>

runVars == <<cfg, is_test, pc, symbols, idx, news_data, stock_info, summaries,
             html_report, email_sent, result, exit_code, smtp, touched, seen>>

sumVars == <<call, spc, attempt, model_ix, model_error, last_error, ret, probe>>

(***************************************************************************)
(* Bounds of the model.                                                    *)
(***************************************************************************)
MaxSymbols == 2
MaxRecipients == 2
MaxLines == 3

(***************************************************************************)
(* Program constants.                                                      *)
(***************************************************************************)
max_retries == 3
retry_delay == 3
NEWS_LOOKBACK_DAYS == 1
\* time.sleep(1.1) of fetch_news, in milliseconds
FinnhubPacingMs == 1100

None == "None"
NoCall == [symbol |-> None]
NoRet == [site |-> None, text |-> <<>>]
NoProbe == [calls |-> 0, waits |-> <<>>, clients |-> 0, lastCall |-> <<>>,
            kinds |-> {}]

(***************************************************************************)
(* Python helpers.                                                         *)
(***************************************************************************)
\* 2 ** n
Pow2(n) == IF n = 0 THEN 1 ELSE IF n = 1 THEN 2 ELSE IF n = 2 THEN 4 ELSE 8

\* A dict is the sequence of its <<key, value>> items in insertion order.
DictKeys(d) == [i \in 1..Len(d) |-> d[i][1]]

DictHas(d, k) == \E i \in 1..Len(d) : d[i][1] = k

DictGet(d, k, default) ==
    IF DictHas(d, k)
    THEN d[CHOOSE i \in 1..Len(d) : d[i][1] = k][2]
    ELSE default

\* An assignment that starts a new dict for every key.
DictSet_starts_over(d, k, v) == <<<<k, v>>>>

\* d[k] = v : an existing key keeps its place, a new key goes last.
DictSet(d, k, v) ==
    IF DictHas(d, k)
    THEN [i \in 1..Len(d) |-> IF d[i][1] = k THEN <<k, v>> ELSE d[i]]
    ELSE Append(d, <<k, v>>)

(***************************************************************************)
(* The LLM provider: what client.messages.create does on one call.         *)
(*   ok            returns a message                                       *)
(*   auth401       AuthenticationError, text "Error code: 401 - ..."       *)
(*   auth          AuthenticationError whose text has neither "401" nor    *)
(*                 "Unauthorized" (a body that is not JSON)                *)
(*   rate          RateLimitError                                          *)
(*   timeout       APITimeoutError                                         *)
(*   api           another APIError (model not found, overloaded, ...)     *)
(*   api_authtext  another APIError whose text says "authentication"       *)
(*   api_long      another APIError whose text has more than 100           *)
(*                 characters (the body of the response is part of it)     *)
(*   other         an exception that is no APIError                        *)
(*   other401      an exception that is no APIError, with "401" in it      *)
(***************************************************************************)
LLMOutcomes == {"ok", "auth401", "auth", "rate", "timeout", "api",
                "api_authtext", "api_long", "other", "other401"}

\* In a whole run the provider is given one outcome of each way through the
\* retry loop: success, the next model, a return without retry, a retry with
\* backoff, a break.  A single call of summarize_stock_news is given them all.
RunLLMOutcomes == {"ok", "auth", "rate", "other"}

IsAPIError(e) ==
    e \in {"auth401", "auth", "rate", "timeout", "api", "api_authtext", "api_long"}

\* "401" in str(e) or "Unauthorized" in str(e)
Has401(e) == e \in {"auth401", "other401"}

\* "authentication" in str(e).lower()
HasAuthWord(e) == e \in {"auth401", "api_authtext"}

\* The class an except clause sees; "TypeError" is what the call
\* AuthenticationError(str(e)) of line 205 raises when the constructor
\* refuses a lone message (it requires response= and body=).
ExcClass(e) ==
    CASE e \in {"auth401", "auth"} -> "AuthenticationError"
      [] e = "rate" -> "RateLimitError"
      [] e = "timeout" -> "APITimeoutError"
      [] e \in {"api", "api_authtext", "api_long"} -> "APIError"
      [] e = "TypeError" -> "TypeError"
      [] OTHER -> "Exception"

\* str(e), one token
ErrText(e) ==
    CASE e = "auth401" -> "Error code: 401 - authentication_error"
      [] e = "auth" -> "invalid x-api-key"
      [] e = "rate" -> "Error code: 429 - rate_limit_error"
      [] e = "timeout" -> "Request timed out."
      [] e = "api" -> "Error code: 404 - not_found_error"
      [] e = "api_authtext" -> "Error code: 403 - authentication required"
      [] e = "api_long" ->
           "Error code: 529 - {'type': 'error', 'error': {'type': 'overloaded_error', 'message': 'Overloaded'}, 'request_id': None}"
      [] e = "TypeError" -> "__init__() missing 2 required keyword-only arguments"
      [] e = "other401" -> "401 Client Error"
      [] OTHER -> "connection reset"

\* The text of the message a successful call returns for a prompt about sym.
LLMText(sym) ==
    CASE sym = "BBB" -> "Good quarter."
      [] sym = "CCC" -> "Weak guidance."
      [] OTHER -> "Quiet day."

OfficialModels == <<"claude-sonnet-4-20250514", "claude-sonnet-4-20250513",
                    "claude-3-5-sonnet-20241022">>
ProxyModels == <<"claude-sonnet-4-20250514", "claude-3-5-sonnet-20241022">>

OfficialUrl == "https://api.anthropic.com"
ProxyUrl == "https://llm-proxy.example/v1"

\* lines 169-181
models_to_try(base_url) ==
    IF base_url # None /\ base_url # OfficialUrl THEN ProxyModels ELSE OfficialModels

(***************************************************************************)
(* Texts of ai_summarizer.py.                                              *)
(***************************************************************************)
_get_company_name(symbol) == symbol

\* the title of lines 153, 155, 216-219, 281, 283
Title(symbol, company_name, language) ==
    IF language = "zh"
    THEN <<"## ", symbol, "zh:(", company_name, "zh:)">>
    ELSE <<"## ", symbol, " (", company_name, ")">>

NoNewsText(symbol, company_name, language) ==
    Title(symbol, company_name, language) \o
    (IF language = "zh"
     THEN <<"\n\n", "zh:no-major-news-today">>
     ELSE <<"\n\n", "No major news events today.">>)

\* An error text that is written in one language only.
_format_error_one_language(symbol, company_name, language, error_msg) ==
    Title(symbol, company_name, "zh") \o
    <<"\n\n", "[warning] ", "zh:summary-generation-failed", "\n\n", "zh:error-info: ">>
        \o error_msg \o <<"\n\n", "zh:please-retry-later">>

_format_error(symbol, company_name, language, error_msg) ==
    Title(symbol, company_name, language) \o
    (IF language = "zh"
     THEN <<"\n\n", "[warning] ", "zh:summary-generation-failed", "\n\n", "zh:error-info: ">> \o error_msg
              \o <<"\n\n", "zh:please-retry-later">>
     ELSE <<"\n\n", "[warning] ", "Summary generation failed", "\n\n", "Error: ">> \o error_msg
              \o <<"\n\n", "Please try again later.">>)

\* A success text without the blank line after the title.
SuccessText_no_blank_line(symbol, company_name, language, summary) ==
    Title(symbol, company_name, language) \o <<summary>>

\* lines 216-224
SuccessText(symbol, company_name, language, summary) ==
    Title(symbol, company_name, language) \o <<"\n\n", summary>>

MissingKeyMsg == <<"zh:missing Anthropic API Key">>
\* text[:80] and text[:100]; of the texts of ErrText only that of api_long has
\* more than 80 characters
First80(text) ==
    IF text = ErrText("api_long")
    THEN "Error code: 529 - {'type': 'error', 'error': {'type': 'overloaded_error', 'messa"
    ELSE text

First100(text) ==
    IF text = ErrText("api_long")
    THEN "Error code: 529 - {'type': 'error', 'error': {'type': 'overloaded_error', 'message': 'Overloaded'}, "
    ELSE text

AuthFailedMsg(e) == <<"zh:authentication-failed: ", First80(ErrText(e))>>
CallFailedMsg(e) ==
    IF e = None
    THEN <<"zh:API-call-failed: ", "NoneType", ": ", "Unknown error">>
    ELSE <<"zh:API-call-failed: ", ExcClass(e), ": ", First100(ErrText(e))>>

(***************************************************************************)
(* summarize_stock_news (ai_summarizer.py:112-275), one LLM call at a      *)
(* time.  A step is described by the record of what it leaves behind: the  *)
(* position, the locals, the value returned, the sleeps it made and        *)
(* whether it constructed a client.                                        *)
(***************************************************************************)
Observed == mode = "sum"

SumReturn(site, text, waits) ==
    [spc |-> "returned", attempt |-> 0, model_ix |-> 1, model_error |-> None,
     last_error |-> None, ret |-> [site |-> site, text |-> text],
     waits |-> waits, client |-> FALSE]

\* A loop that ends without a text.
SumFailed_no_text(c, le, waits) == SumReturn("failed", <<>>, waits)

\* line 272-275: the loop is over without a return
SumFailed(c, le, waits) ==
    SumReturn("failed",
              _format_error(c.symbol, _get_company_name(c.symbol), c.language,
                            CallFailedMsg(le)),
              waits)

\* A retry loop that makes one iteration more than max_retries.
SumContinue_one_more(c, att, le, waits) ==
    IF att < max_retries
    THEN [spc |-> "model", attempt |-> att + 1, model_ix |-> 1,
          model_error |-> None, last_error |-> le, ret |-> NoRet,
          waits |-> waits, client |-> TRUE]
    ELSE SumReturn("failed",
                   _format_error(c.symbol, _get_company_name(c.symbol), c.language,
                                 CallFailedMsg(le)),
                   waits)

\* lines 162-184: the next iteration of the retry loop begins, if there is one
SumContinue(c, att, le, waits) ==
    IF att + 1 < max_retries
    THEN [spc |-> "model", attempt |-> att + 1, model_ix |-> 1,
          model_error |-> None, last_error |-> le, ret |-> NoRet,
          waits |-> waits, client |-> TRUE]
    ELSE SumFailed(c, le, waits)

\* lines 226-270: the except clauses of the retry loop, for exception x
SumExcept(c, att, x) ==
    LET company_name == _get_company_name(c.symbol) IN
    CASE ExcClass(x) = "AuthenticationError" ->
           SumReturn("auth",
                     _format_error(c.symbol, company_name, c.language, AuthFailedMsg(x)),
                     <<>>)
      [] ExcClass(x) = "RateLimitError" ->
           SumContinue(c, att, x, <<retry_delay * Pow2(att)>>)
      [] ExcClass(x) = "APITimeoutError" ->
           SumContinue(c, att, x, <<retry_delay>>)
      [] ExcClass(x) = "APIError" ->
           IF Has401(x) \/ HasAuthWord(x)
           THEN SumReturn("api_auth",
                          _format_error(c.symbol, company_name, c.language, AuthFailedMsg(x)),
                          <<>>)
           ELSE SumContinue(c, att, x,
                            IF att < max_retries - 1 THEN <<retry_delay>> ELSE <<>>)
      [] OTHER ->
           IF Has401(x)
           THEN SumReturn("exc_auth",
                          _format_error(c.symbol, company_name, c.language, AuthFailedMsg(x)),
                          <<>>)
           ELSE SumFailed(c, x, <<>>)

\* A call whose APIError goes to the handlers of the retry loop at once,
\* whatever the models left in the list.
SumAfterCall_no_fallback(c, att, ix, me, le, e, ctor_ok) ==
    IF e = "ok"
    THEN SumReturn("success",
                   SuccessText(c.symbol, _get_company_name(c.symbol), c.language,
                               LLMText(c.symbol)),
                   <<retry_delay>>)
    ELSE IF IsAPIError(e) /\ Has401(e)
    THEN SumExcept(c, att, IF ctor_ok THEN e ELSE "TypeError")
    ELSE SumExcept(c, att, e)

\* lines 186-224: the call to model number ix of the list ends as e; ctor_ok
\* says whether AuthenticationError(str(e)) of line 205 can be constructed
SumAfterCall(c, att, ix, me, le, e, ctor_ok) ==
    LET models == models_to_try(c.base_url) IN
    IF e = "ok"
    THEN SumReturn("success",
                   SuccessText(c.symbol, _get_company_name(c.symbol), c.language,
                               LLMText(c.symbol)),
                   <<retry_delay>>)
    ELSE IF IsAPIError(e)
    THEN IF Has401(e)
         THEN SumExcept(c, att, IF ctor_ok THEN e ELSE "TypeError")
         ELSE IF ix < Len(models)
         THEN [spc |-> "model", attempt |-> att, model_ix |-> ix + 1,
               model_error |-> e, last_error |-> le, ret |-> NoRet,
               waits |-> <<>>, client |-> FALSE]
         ELSE SumExcept(c, att, e)
    ELSE SumExcept(c, att, e)

\* An entry without the shortcut for an empty news list.
SumAtEntry_no_shortcut(c) ==
    IF c.api_key = None
    THEN SumReturn("no_key",
                   _format_error(c.symbol, c.symbol, c.language, MissingKeyMsg),
                   <<>>)
    ELSE [spc |-> "model", attempt |-> 0, model_ix |-> 1, model_error |-> None,
          last_error |-> None, ret |-> NoRet, waits |-> <<>>, client |-> TRUE]

\* An entry that looks at the news list before the credential.
SumAtEntry_news_first(c) ==
    IF c.news_list = <<>>
    THEN SumReturn("no_news",
                   NoNewsText(c.symbol, _get_company_name(c.symbol), c.language),
                   <<>>)
    ELSE IF c.api_key = None
    THEN SumReturn("no_key",
                   _format_error(c.symbol, c.symbol, c.language, MissingKeyMsg),
                   <<>>)
    ELSE [spc |-> "model", attempt |-> 0, model_ix |-> 1, model_error |-> None,
          last_error |-> None, ret |-> NoRet, waits |-> <<>>, client |-> TRUE]

\* lines 140-165: the shortcuts, then the first iteration of the retry loop
SumAtEntry(c) ==
    IF c.api_key = None
    THEN SumReturn("no_key",
                   _format_error(c.symbol, c.symbol, c.language, MissingKeyMsg),
                   <<>>)
    ELSE IF c.news_list = <<>>
    THEN SumReturn("no_news",
                   NoNewsText(c.symbol, _get_company_name(c.symbol), c.language),
                   <<>>)
    ELSE [spc |-> "model", attempt |-> 0, model_ix |-> 1, model_error |-> None,
          last_error |-> None, ret |-> NoRet, waits |-> <<>>, client |-> TRUE]

\* lines 35-109: the prompt asks for the three sections of a summary, and
\* for a fourth, the short-term trend prediction, with include_prediction
_build_prompt(include_prediction) ==
    IF include_prediction THEN "summary-with-prediction" ELSE "summary"

\* The step s is taken; what of it is observed is recorded (called: the LLM
\* call the step made, if any).
SumApply(s, called) ==
    /\ spc' = s.spc
    /\ attempt' = s.attempt
    /\ model_ix' = s.model_ix
    /\ model_error' = s.model_error
    /\ last_error' = s.last_error
    /\ ret' = s.ret
    /\ probe' = IF Observed
                THEN [calls |-> probe.calls + Len(called),
                      waits |-> probe.waits \o s.waits,
                      clients |-> probe.clients + (IF s.client THEN 1 ELSE 0),
                      lastCall |-> IF called = <<>> THEN probe.lastCall ELSE called,
                      kinds |-> probe.kinds \cup {called[i].kind : i \in 1..Len(called)}]
                ELSE probe

SumEntry ==
    /\ spc = "entry"
    /\ SumApply(SumAtEntry(call), <<>>)
    /\ UNCHANGED <<mode, call, runVars>>

SumCall ==
    /\ spc = "model"
    /\ \E e \in (IF Observed THEN LLMOutcomes ELSE RunLLMOutcomes), ctor_ok \in BOOLEAN :
          /\ (~Has401(e) \/ ~IsAPIError(e)) => ctor_ok
          /\ SumApply(SumAfterCall(call, attempt, model_ix, model_error, last_error,
                                   e, ctor_ok),
                      <<[model |-> models_to_try(call.base_url)[model_ix],
                         kind |-> e, attempt |-> attempt,
                         prompt |-> _build_prompt(call.include_prediction)]>>)
    /\ touched' = touched \cup {"llm"}
    /\ UNCHANGED <<mode, call, cfg, is_test, pc, symbols, idx, news_data, stock_info,
                   summaries, html_report, email_sent, result, exit_code, smtp,
                   seen>>

(***************************************************************************)
(* get_stock_prediction (ai_summarizer.py:286-408), one LLM call at a      *)
(* time: model_ix is the model of its list that is called next, probe the  *)
(* models called so far, the sleeps made and the clients constructed.      *)
(***************************************************************************)
PredictionModels == <<"claude-3-5-sonnet-20241022", "claude-sonnet-4-20250514">>

\* str(e)[:50]; the texts of ErrText have fewer than 50 characters, but for
\* the one that is cut here
First50(text) ==
    IF text = "connection reset by peer while reading the response body of the request"
    THEN "connection reset by peer while reading the respons"
    ELSE text

\* what the exceptions of the constructor and of a call look like to line 407
PredErrText(e) ==
    IF e = "other_long"
    THEN "connection reset by peer while reading the response body of the request"
    ELSE ErrText(e)

PredMissingKey == <<"[warning] ", "zh:missing API Key">>
PredAllFailed == <<"zh:prediction-generation-failed">>
PredException(e) == <<"zh:prediction-failed: ", First50(PredErrText(e))>>

NoPrediction == [calls |-> <<>>, waits |-> <<>>, clients |-> 0]

\* what the statements of get_stock_prediction leave alone
PredFrame ==
    UNCHANGED <<mode, call, runVars, attempt, model_error, last_error>>

\* lines 312-313, 386-387: the credential, then the client
PredEntry ==
    /\ mode = "get_stock_prediction" /\ spc = "entry"
    /\ IF call.api_key = None
       THEN /\ ret' = [site |-> "no_key", text |-> PredMissingKey]
            /\ spc' = "returned"
            /\ UNCHANGED <<probe, model_ix>>
       ELSE /\ probe' = [probe EXCEPT !.clients = @ + 1]
            /\ IF call.client = "ok"
               THEN /\ spc' = "model" /\ model_ix' = 1
                    /\ UNCHANGED ret
               ELSE /\ ret' = [site |-> "exception", text |-> PredException(call.client)]
                    /\ spc' = "returned"
                    /\ UNCHANGED model_ix
    /\ PredFrame

\* A loop that calls the same model again after an APIError.
PredCall_retries ==
    /\ mode = "get_stock_prediction" /\ spc = "model"
    /\ \E e \in LLMOutcomes \cup {"other_long"} :
          /\ probe' = [probe EXCEPT !.calls = Append(@, [model |-> PredictionModels[model_ix],
                                                         kind |-> e])]
          /\ IF e = "ok"
             THEN /\ ret' = [site |-> "success", text |-> <<LLMText(call.symbol)>>]
                  /\ spc' = "returned"
                  /\ UNCHANGED model_ix
             ELSE IF Len(probe.calls) < 2 * Len(PredictionModels) - 1
             THEN /\ model_ix' = IF Len(probe.calls) % 2 = 1 THEN model_ix + 1 ELSE model_ix
                  /\ UNCHANGED <<spc, ret>>
             ELSE /\ ret' = [site |-> "all_failed", text |-> PredAllFailed]
                  /\ spc' = "returned"
                  /\ UNCHANGED model_ix
    /\ PredFrame

\* lines 392-407: the call to the next model of the list returns a message,
\* raises an APIError (the loop goes on) or raises something else
PredCall ==
    /\ mode = "get_stock_prediction" /\ spc = "model"
    /\ \E e \in LLMOutcomes \cup {"other_long"} :
          /\ probe' = [probe EXCEPT !.calls = Append(@, [model |-> PredictionModels[model_ix],
                                                         kind |-> e])]
          /\ IF e = "ok"
             THEN /\ ret' = [site |-> "success", text |-> <<LLMText(call.symbol)>>]
                  /\ spc' = "returned"
                  /\ UNCHANGED model_ix
             ELSE IF IsAPIError(e)
             THEN IF model_ix < Len(PredictionModels)
                  THEN /\ model_ix' = model_ix + 1
                       /\ UNCHANGED <<spc, ret>>
                  ELSE /\ ret' = [site |-> "all_failed", text |-> PredAllFailed]
                       /\ spc' = "returned"
                       /\ UNCHANGED model_ix
             ELSE /\ ret' = [site |-> "exception", text |-> PredException(e)]
                  /\ spc' = "returned"
                  /\ UNCHANGED model_ix
    /\ PredFrame

(***************************************************************************)
(* Collaborators of the run.                                               *)
(***************************************************************************)
SymbolNames == {"BBB", "CCC"}
Addresses == <<"a@example.com", "b@example.com", "c@example.com", "d@example.com">>

SeqsUpTo(S, n) == UNION {[1..k -> S] : k \in 0..n}

\* A value of a dict a collaborator gives: the key is missing, or holds None, or
\* holds a number (prices in cents, times in seconds).
Missing == [kind |-> "missing", v |-> 0]
NoneVal == [kind |-> "none", v |-> 0]
Num(n) == [kind |-> "num", v |-> n]
Absent == "<absent>"

\* Seconds: a day, and the time of the call (day 50, 13:30:30 UTC).
Day == 86400
Now == 50 * Day + 48630

\* Times a source gives for an item: an hour ago, 40 days ago, the midnight
\* that begins yesterday, and one second before it.
RecentTime == Now - 3600
OldTime == Now - 40 * Day
CutoffTime == 49 * Day
BeforeCutoffTime == 49 * Day - 1

\* An item as a source gives it: time is its datetime (Finnhub) or its
\* providerPublishTime (yfinance), missing or a number of seconds.
\* the address of the n-th article about a symbol
ArticleUrl(sym, n) ==
    CASE sym = "BBB" /\ n = 1 -> "https://news.example/bbb/1"
      [] sym = "BBB" -> "https://news.example/bbb/2"
      [] n = 1 -> "https://news.example/ccc/1"
      [] OTHER -> "https://news.example/ccc/2"

RawItem(sym, source, n, time) ==
    [title |-> IF n = 1 THEN "X raises guidance" ELSE "X names new CFO",
     source |-> source, symbol |-> sym,
     url |-> ArticleUrl(sym, n),
     time |-> time]

NewsItem(sym, source) == RawItem(sym, source, 1, Num(RecentTime))

\* What one news source does for a symbol in a run: it raises, or returns a
\* list.
SourceOutcomes(sym, source) ==
    {[raises |-> TRUE, items |-> <<>>],
     [raises |-> FALSE, items |-> <<>>],
     [raises |-> FALSE, items |-> <<NewsItem(sym, source)>>]}

\* What one news source does for a symbol when fetch_news is called on its
\* own: the lists have up to two items, of any age.
ItemTimes == {Missing, Num(OldTime), Num(BeforeCutoffTime), Num(CutoffTime)}

AllSourceOutcomes(sym, source) ==
    {[raises |-> TRUE, items |-> <<>>], [raises |-> FALSE, items |-> <<>>]}
    \cup {[raises |-> FALSE, items |-> <<RawItem(sym, source, 1, t)>>] : t \in ItemTimes}
    \cup {[raises |-> FALSE,
           items |-> <<RawItem(sym, source, 1, p[1]), RawItem(sym, source, 2, p[2])>>] :
             p \in {<<Num(OldTime), Num(CutoffTime)>>, <<Num(CutoffTime), Missing>>,
                    <<Num(BeforeCutoffTime), Num(RecentTime)>>}}

\* What a function hands to its caller: a value, or an exception (exc).
Returns(v) == [exc |-> FALSE, value |-> v]
Raises(v) == [exc |-> TRUE, value |-> v]

\* strftime("%Y-%m-%d %H:%M") of a timestamp: the minute it falls in
FormatDate(timestamp) == [parsable |-> TRUE, minute |-> timestamp \div 60]
\* the empty string yfinance items without a publish time get (line 96)
Unparsable == [parsable |-> FALSE, minute |-> 0]

\* news_fetcher.py:15-18
_parse_finnhub_date(timestamp) == FormatDate(timestamp)

\* A date test that drops what it cannot parse.
_is_within_days_strict(published_date, days_back, now) ==
    /\ published_date.parsable
    /\ LET cutoff == now - days_back * Day
       IN published_date.minute * 60 >= cutoff - (cutoff % Day)

\* news_fetcher.py:21-30: at or after the midnight that begins the day of
\* now - days_back; a date that cannot be parsed is kept
_is_within_days(published_date, days_back, now) ==
    IF ~published_date.parsable
    THEN TRUE
    ELSE LET cutoff == now - days_back * Day
         IN published_date.minute * 60 >= cutoff - (cutoff % Day)

\* lines 56-62
FinnhubItem(raw) ==
    [title |-> raw.title, source |-> raw.source, symbol |-> raw.symbol,
     url |-> raw.url,
     published_at |-> _parse_finnhub_date(IF raw.time.kind = "num"
                                          THEN raw.time.v ELSE 0)]

\* lines 92-104
YfinanceItem(raw) ==
    [title |-> raw.title, source |-> raw.source, symbol |-> raw.symbol,
     url |-> raw.url,
     published_at |-> IF raw.time.kind = "num" /\ raw.time.v # 0
                      THEN FormatDate(raw.time.v) ELSE Unparsable]

FirstN(seq, n) == SubSeq(seq, 1, IF Len(seq) < n THEN Len(seq) ELSE n)

\* A primary source whose exception is not caught.
fetch_from_finnhub_uncaught(outcome) ==
    IF outcome.raises THEN Raises("error")
    ELSE Returns([i \in 1..Len(outcome.items) |-> FinnhubItem(outcome.items[i])])

\* news_fetcher.py:33-68: try ... except Exception: return []
fetch_from_finnhub(outcome) ==
    IF outcome.raises
    THEN Returns(<<>>)
    ELSE LET taken == FirstN(outcome.items, 20)
         IN Returns([i \in 1..Len(taken) |-> FinnhubItem(taken[i])])

\* A secondary source whose exception is not caught.
fetch_from_yfinance_uncaught(outcome) ==
    IF outcome.raises THEN Raises("error")
    ELSE Returns([i \in 1..Len(outcome.items) |-> YfinanceItem(outcome.items[i])])

\* news_fetcher.py:71-110: try ... except Exception: return []
fetch_from_yfinance(outcome) ==
    IF outcome.raises
    THEN Returns(<<>>)
    ELSE LET taken == FirstN(outcome.items, 20)
         IN Returns([i \in 1..Len(taken) |-> YfinanceItem(taken[i])])

\* A choice of sources that asks both and joins what they give.
FetchOne_merges(finnhub_api_key, primary, secondary) ==
    LET first == IF finnhub_api_key # None
                 THEN fetch_from_finnhub(primary) ELSE Returns(<<>>)
        second == fetch_from_yfinance(secondary)
    IN [exc |-> FALSE, value |-> first.value \o second.value,
        asked |-> (IF finnhub_api_key # None THEN <<"finnhub">> ELSE <<>>)
                      \o <<"yfinance">>]

\* news_fetcher.py:211-224 for one symbol: the secondary source is asked
\* when the primary one (asked only with a key) gave nothing; an exception
\* of a source function would leave fetch_news.  asked: the sources called.
FetchOne(finnhub_api_key, primary, secondary) ==
    LET first == IF finnhub_api_key # None
                 THEN fetch_from_finnhub(primary) ELSE Returns(<<>>)
        asked == IF finnhub_api_key # None THEN <<"finnhub">> ELSE <<>>
    IN IF first.exc
       THEN [exc |-> TRUE, value |-> first.value, asked |-> asked]
       ELSE IF first.value = <<>>
       THEN LET second == fetch_from_yfinance(secondary)
            IN [exc |-> second.exc, value |-> second.value,
                asked |-> asked \o <<"yfinance">>]
       ELSE [exc |-> FALSE, value |-> first.value, asked |-> asked]

\* lines 226-228: the recency filter
FilterNews(news_list, days_back, now) ==
    IF days_back > 0
    THEN SelectSeq(news_list,
                   LAMBDA n : _is_within_days(n.published_at, days_back, now))
    ELSE news_list

\* line 208: symbol.strip().upper()
Normalize(symbol) == IF symbol = " bbb" THEN "BBB" ELSE symbol

\* lines 211-230: the news list of one symbol, with the list before the
\* filter (unfiltered) and the sources called (asked)
FetchSymbol(finnhub_api_key, days_back, now, primary, secondary) ==
    LET r == FetchOne(finnhub_api_key, primary, secondary)
    IN IF r.exc
       THEN [exc |-> TRUE, value |-> r.value, asked |-> r.asked, unfiltered |-> <<>>]
       ELSE [exc |-> FALSE, value |-> FilterNews(r.value, days_back, now),
             asked |-> r.asked, unfiltered |-> r.value]

\* A pacing that also sleeps after the call for the last symbol.
PacingWaits_after_every_call(finnhub_api_key, i, n) ==
    IF finnhub_api_key # None THEN <<FinnhubPacingMs>> ELSE <<>>

\* lines 217-219: the sleep after the call of the primary source for the
\* symbol at index i (from 0) of n symbols
PacingWaits(finnhub_api_key, i, n) ==
    IF finnhub_api_key # None /\ i < n - 1 THEN <<FinnhubPacingMs>> ELSE <<>>

CallEvent(source) == [kind |-> "call", what |-> source, ms |-> 0]
SleepEvent(ms) == [kind |-> "sleep", what |-> "pacing", ms |-> ms]

\* lines 214-224: what one iteration of fetch_news does, in order: the call
\* of the primary source, the sleep, the call of the secondary source; r is
\* the result of FetchSymbol for the iteration
FetchEvents(finnhub_api_key, i, n, r) ==
    LET calls == [k \in 1..Len(r.asked) |-> CallEvent(r.asked[k])]
        waits == PacingWaits(finnhub_api_key, i, n)
        sleeps == [k \in 1..Len(waits) |-> SleepEvent(waits[k])]
    IN IF finnhub_api_key = None THEN calls
       ELSE IF r.exc /\ Len(r.asked) = 1 THEN calls
       ELSE <<calls[1]>> \o sleeps \o Tail(calls)

\* every source fetch_news asked for the symbol raised
AllSourcesRaised(finnhub_api_key, primary, secondary) ==
    /\ finnhub_api_key # None => primary.raises
    /\ secondary.raises

\* ticker.info as run_digest meets it: it raises, or gives longName,
\* previousClose and currentPrice
InfoOutcomes ==
    {[raises |-> TRUE, longName |-> Absent, previousClose |-> Missing,
      currentPrice |-> Missing],
     [raises |-> FALSE, longName |-> "Acme", previousClose |-> Num(10000),
      currentPrice |-> Num(10350)]}

\* ticker.info as a direct call of get_stock_info meets it
AllInfoOutcomes ==
    [raises : {FALSE},
     longName : {Absent, None, "Acme"},
     previousClose : {Missing, NoneVal, Num(-500), Num(0), Num(300), Num(10000)},
     currentPrice : {Missing, NoneVal, Num(0), Num(500), Num(10350)}]
    \cup {[raises |-> TRUE, longName |-> Absent, previousClose |-> Missing,
           currentPrice |-> Missing]}

\* ticker.history: it raises, or gives an empty frame, or rows whose lowest
\* Low and highest High among the last 56 are low and high
HistOutcomes == {[raises |-> TRUE, empty |-> FALSE, low |-> 0, high |-> 0],
                 [raises |-> FALSE, empty |-> TRUE, low |-> 0, high |-> 0],
                 [raises |-> FALSE, empty |-> FALSE, low |-> 9000, high |-> 11000]}
\* In a whole run the history of a symbol whose info was read is read too.
RunHistOutcomes(info) == {h \in HistOutcomes : h.raises = info.raises /\ ~h.empty}

NoInfo == <<>>

\* round(a / b, 0) for b > 0
RoundDiv(a, b) == (2 * a + b) \div (2 * b)

\* news_fetcher.py:171-178, the snapshot returned when anything raised
DegradedInfo(symbol) ==
    [company_name |-> symbol, current_price |-> NoneVal, change |-> 0,
     change_percent |-> Num(0), week_8_low |-> NoneVal, week_8_high |-> NoneVal]

\* A baseline test that only asks for a value that is not zero.
IsPositive_nonzero(previous_close) ==
    previous_close.kind = "num" /\ previous_close.v # 0

\* line 134: previous_close and previous_close > 0
IsPositive(previous_close) ==
    previous_close.kind = "num" /\ previous_close.v > 0

\* A history whose exception is not caught where it is read.
Week8_uncaught(hist) ==
    IF hist.raises THEN Raises("error")
    ELSE IF hist.empty THEN Returns([low |-> NoneVal, high |-> NoneVal])
    ELSE Returns([low |-> Num(hist.low), high |-> Num(hist.high)])

\* lines 143-158: the low and the high of the last 8 weeks, absent when the
\* history raised or is empty
Week8(hist) ==
    IF hist.raises \/ hist.empty
    THEN Returns([low |-> NoneVal, high |-> NoneVal])
    ELSE Returns([low |-> Num(hist.low), high |-> Num(hist.high)])

\* news_fetcher.py:113-178; change_percent in hundredths of a percent.  The
\* subtraction of line 135 raises TypeError on a currentPrice of None, which
\* the handler of line 169 catches as it catches everything else.
get_stock_info(symbol, info, hist) ==
    IF info.raises
    THEN Returns(DegradedInfo(symbol))
    ELSE LET company_name == IF info.longName = Absent THEN symbol ELSE info.longName
             previous_close == IF info.previousClose.kind = "missing"
                               THEN Num(0) ELSE info.previousClose
             current_price == IF info.currentPrice.kind = "missing"
                              THEN previous_close ELSE info.currentPrice
             positive == IsPositive(previous_close)
             week_8 == Week8(hist)
         IN IF positive /\ current_price.kind # "num"
            THEN Returns(DegradedInfo(symbol))
            ELSE IF week_8.exc
            THEN Returns(DegradedInfo(symbol))
            ELSE Returns(
                 [company_name |-> company_name,
                  current_price |-> IF positive /\ current_price.v # 0
                                    THEN Num(current_price.v) ELSE NoneVal,
                  change |-> IF positive THEN current_price.v - previous_close.v ELSE 0,
                  change_percent |->
                      IF positive
                      THEN Num(RoundDiv((current_price.v - previous_close.v) * 10000,
                                        previous_close.v))
                      ELSE Num(0),
                  week_8_low |-> week_8.value.low,
                  week_8_high |-> week_8.value.high])

\* main.py:92-96, the snapshot run_digest puts in place of a failed one
FallbackInfo(symbol) ==
    [company_name |-> symbol, change |-> 0, change_percent |-> Num(0)]

(***************************************************************************)
(* report_builder.py                                                       *)
(***************************************************************************)
\* A change class that takes an unchanged price for a rise.
_get_change_class_nonnegative(change_percent) ==
    IF change_percent.kind # "num" THEN Raises("TypeError")
    ELSE Returns(IF change_percent.v >= 0 THEN "positive" ELSE "negative")

\* report_builder.py:356-362; the comparison of line 358 raises TypeError on
\* None
_get_change_class(change_percent) ==
    IF change_percent.kind # "num" THEN Raises("TypeError")
    ELSE IF change_percent.v > 0 THEN Returns("positive")
    ELSE IF change_percent.v < 0 THEN Returns("negative")
    ELSE Returns("neutral")

\* A prediction text, for the keyword scans: the set of the words in it.
\* "zh:..." stand for the Chinese keywords and "[...]" for the emoji.
TrendWords == {"zh:bullish", "[chart-up]", "zh:bearish", "[chart-down]",
               "zh:neutral", "[arrow-right]", "Bullish", "bearish", "NEUTRAL",
               "Outlook"}

\* str.lower() of a word
Lower(word) ==
    CASE word = "Bullish" -> "bullish"
      [] word = "NEUTRAL" -> "neutral"
      [] word = "Outlook" -> "outlook"
      [] OTHER -> word

\* keyword in text
Contains(text, keyword) == keyword \in text
\* keyword in text.lower()
ContainsLower(text, keyword) == \E word \in text : Lower(word) = keyword

\* report_builder.py:365-388
_extract_trend_badge(prediction_text) ==
    IF prediction_text = {} THEN None
    ELSE IF Contains(prediction_text, "zh:bullish") \/ Contains(prediction_text, "[chart-up]")
    THEN "zh:bullish [chart-up]"
    ELSE IF Contains(prediction_text, "zh:bearish") \/ Contains(prediction_text, "[chart-down]")
    THEN "zh:bearish [chart-down]"
    ELSE IF Contains(prediction_text, "zh:neutral") \/ Contains(prediction_text, "[arrow-right]")
    THEN "zh:neutral [arrow-right]"
    ELSE IF ContainsLower(prediction_text, "bullish") THEN "Bullish [chart-up]"
    ELSE IF ContainsLower(prediction_text, "bearish") THEN "Bearish [chart-down]"
    ELSE IF ContainsLower(prediction_text, "neutral") THEN "Neutral [arrow-right]"
    ELSE None

\* report_builder.py:391-405
_extract_trend_class(prediction_text) ==
    IF prediction_text = {} THEN None
    ELSE IF Contains(prediction_text, "zh:bullish")
            \/ ContainsLower(prediction_text, "bullish")
            \/ Contains(prediction_text, "[chart-up]")
    THEN "trend-bullish"
    ELSE IF Contains(prediction_text, "zh:bearish")
            \/ ContainsLower(prediction_text, "bearish")
            \/ Contains(prediction_text, "[chart-down]")
    THEN "trend-bearish"
    ELSE IF Contains(prediction_text, "zh:neutral")
            \/ ContainsLower(prediction_text, "neutral")
            \/ Contains(prediction_text, "[arrow-right]")
    THEN "trend-neutral"
    ELSE None

\* lines 464-467: the prediction fields of a card; predictions is a dict of
\* texts, empty when none was passed
PredictionFields(predictions, symbol) ==
    LET text == DictGet(predictions, symbol, {})
        given == predictions # <<>> /\ text # {}
    IN [prediction |-> text,
        trend_badge |-> IF given THEN _extract_trend_badge(text) ELSE None,
        trend_class |-> IF given THEN _extract_trend_class(text) ELSE None]

\* A text is a sequence of tokens; the token "\n\n" stands for two line
\* breaks in a row.
RECURSIVE Breaks(_)
Breaks(text) ==
    IF text = <<>> THEN <<>>
    ELSE (IF Head(text) = "\n\n" THEN <<"\n", "\n">> ELSE <<Head(text)>>)
         \o Breaks(Tail(text))

\* How many times the token occurs before position i.
Before(text, i, token) == Cardinality({j \in 1..(i - 1) : text[j] = token})

\* line 319: html.replace("### ", "<h3>").replace("\n", "</h3>\n", 1)
RECURSIVE CloseFirstLine(_)
CloseFirstLine(text) ==
    IF text = <<>> THEN <<>>
    ELSE IF Head(text) = "\n" THEN <<"</h3>">> \o text
    ELSE <<Head(text)>> \o CloseFirstLine(Tail(text))

Headings(text) ==
    CloseFirstLine([i \in 1..Len(text) |->
                       IF text[i] = "### " THEN "<h3>" ELSE text[i]])

\* lines 322-323: the first four "**" become <strong>, </strong>, <strong>,
\* </strong>; later ones stay
Bold(text) ==
    [i \in 1..Len(text) |->
        IF text[i] = "**" /\ Before(text, i, "**") < 4
        THEN (IF Before(text, i, "**") % 2 = 0 THEN "<strong>" ELSE "</strong>")
        ELSE text[i]]

\* line 326: html.split("\n")
RECURSIVE SplitLines(_)
SplitLines(text) ==
    IF \A i \in 1..Len(text) : text[i] # "\n"
    THEN <<text>>
    ELSE LET k == CHOOSE i \in 1..Len(text) :
                      /\ text[i] = "\n"
                      /\ \A j \in 1..(i - 1) : text[j] # "\n"
         IN <<SubSeq(text, 1, k - 1)>> \o SplitLines(SubSeq(text, k + 1, Len(text)))

\* line 331: line.strip(); " " is a token of white space
RECURSIVE Strip(_)
Strip(line) ==
    IF line = <<>> THEN <<>>
    ELSE IF Head(line) = " " THEN Strip(Tail(line))
    ELSE IF line[Len(line)] = " " THEN Strip(SubSeq(line, 1, Len(line) - 1))
    ELSE line

\* line 337: the markers of startswith(("* ", "1. ", "2. ", "3. "))
OtherMarkers == {"* ", "1. ", "2. ", "3. "}

\* line 332 and line 337: the line starts with a marker the converter knows
StartsWithMarker(line) ==
    line # <<>> /\ (Head(line) = "- " \/ Head(line) \in OtherMarkers)

Element(tag, content) == [tag |-> tag, content |-> content]

\* lines 330-347: the loop over the lines; line[2:] and line.split(" ", 1)[1]
\* are both the line without its marker
RECURSIVE ConvertLines(_, _)
ConvertLines(lines, in_list) ==
    IF lines = <<>>
    THEN (IF in_list THEN <<Element("/ul", <<>>)>> ELSE <<>>)
    ELSE LET line == Strip(Head(lines))
         IN IF StartsWithMarker(line)
            THEN (IF in_list THEN <<>> ELSE <<Element("ul", <<>>)>>)
                 \o <<Element("li", Tail(line))>>
                 \o ConvertLines(Tail(lines), TRUE)
            ELSE (IF in_list THEN <<Element("/ul", <<>>)>> ELSE <<>>)
                 \o (IF line # <<>> THEN <<Element("p", line)>> ELSE <<>>)
                 \o ConvertLines(Tail(lines), FALSE)

\* _markdown_to_html (lines 311-353): the elements of the result, one per
\* line of the returned string
_markdown_to_html(markdown_text) ==
    IF markdown_text = <<>>
    THEN <<>>
    ELSE ConvertLines(SplitLines(Bold(Headings(Breaks(markdown_text)))), FALSE)

\* dict.get: the value of the key, or the default
FieldGet(d, key, default) == IF key \in DOMAIN d THEN d[key] ELSE default

\* lines 446-453
RECURSIVE NewsLinks(_)
\* Links that keep the items without a URL.
NewsLinks_keeps_all(news_list) ==
    [i \in 1..Len(news_list) |->
        [title |-> FieldGet(news_list[i], "title", "zh:view-details"),
         url |-> FieldGet(news_list[i], "url", None)]]

\* lines 446-453: a link for every item with a URL, in the order of the list
NewsLinks(news_list) ==
    IF news_list = <<>>
    THEN <<>>
    ELSE LET news == Head(news_list)
             url == FieldGet(news, "url", None)
         IN (IF url # "" /\ url # None
             THEN <<[title |-> FieldGet(news, "title", "zh:view-details"),
                     url |-> url]>>
             ELSE <<>>) \o NewsLinks(Tail(news_list))

\* A card that shows the snapshot of the first symbol of the batch.
StockCard_first_snapshot(symbol, summaries_, stock_info_, news_data_, predictions) ==
    LET info == IF stock_info_ = <<>> THEN NoInfo ELSE stock_info_[1][2]
        news_list == DictGet(news_data_, symbol, <<>>)
        change_percent == FieldGet(info, "change_percent", Num(0))
    IN Returns(
            [symbol |-> symbol,
             company_name |-> FieldGet(info, "company_name", symbol),
             change_percent |-> change_percent,
             change_class |-> _get_change_class(change_percent).value,
             summary_html |-> _markdown_to_html(DictGet(summaries_, symbol, <<>>)),
             summary |-> DictGet(summaries_, symbol, <<>>),
             news_links |-> NewsLinks(FirstN(news_list, 10)),
             news_count |-> Len(news_list),
             prediction |-> PredictionFields(predictions, symbol).prediction,
             trend_badge |-> PredictionFields(predictions, symbol).trend_badge,
             trend_class |-> PredictionFields(predictions, symbol).trend_class])

\* lines 442-468: the card of one symbol, or the exception of
\* _get_change_class; prediction_html is there exactly when trend_badge is
StockCard(symbol, summaries_, stock_info_, news_data_, predictions) ==
    LET info == DictGet(stock_info_, symbol, NoInfo)
        news_list == DictGet(news_data_, symbol, <<>>)
        change_percent == FieldGet(info, "change_percent", Num(0))
        change_class == _get_change_class(change_percent)
    IN IF change_class.exc THEN change_class
       ELSE Returns(
            [symbol |-> symbol,
             company_name |-> FieldGet(info, "company_name", symbol),
             change_percent |-> change_percent,
             change_class |-> change_class.value,
             summary_html |-> _markdown_to_html(DictGet(summaries_, symbol, <<>>)),
             summary |-> DictGet(summaries_, symbol, <<>>),
             news_links |-> NewsLinks(FirstN(news_list, 10)),
             news_count |-> Len(news_list),
             prediction |-> PredictionFields(predictions, symbol).prediction,
             trend_badge |-> PredictionFields(predictions, symbol).trend_badge,
             trend_class |-> PredictionFields(predictions, symbol).trend_class])

\* lines 442-468: the cards of the keys of a dict of summaries, or the first
\* exception raised on the way
StockCards(keys, summaries_, stock_info_, news_data_, predictions) ==
    LET cards == [i \in 1..Len(keys) |->
                     StockCard(keys[i][1], summaries_, stock_info_, news_data_,
                               predictions)]
        raising == {i \in 1..Len(keys) : cards[i].exc}
    IN IF raising = {}
       THEN Returns([i \in 1..Len(keys) |-> cards[i].value])
       ELSE cards[CHOOSE i \in raising : \A j \in raising : i <= j]

\* template, lines 283-290: the links of a card that are rendered
RenderedLinks(card) == FirstN(card.news_links, 5)

\* A report that leaves out the symbols without news.
build_html_report_skips_empty(summaries_, stock_info_, news_data_, language, predictions) ==
    LET kept == SelectSeq(summaries_,
                          LAMBDA item : DictGet(news_data_, item[1], <<>>) # <<>>)
        stocks == StockCards(kept, summaries_, stock_info_, news_data_, predictions)
    IN IF stocks.exc THEN stocks
       ELSE Returns([stocks |-> stocks.value, symbols |-> DictKeys(kept),
                     language |-> language])

\* lines 408-483: one card per key of summaries, in the order of the keys;
\* nothing catches the exception of a card
build_html_report(summaries_, stock_info_, news_data_, language, predictions) ==
    LET stocks == StockCards(summaries_, summaries_, stock_info_, news_data_,
                             predictions)
    IN IF stocks.exc THEN stocks
       ELSE Returns([stocks |-> stocks.value, symbols |-> DictKeys(summaries_),
                     language |-> language])

(***************************************************************************)
(* email_sender.py:33-75.  login: what connecting and logging in does      *)
(* ("ok"; "smtp_error", "error": SMTP_SSL(...) raises; "auth_error",       *)
(* "login_error": server.login raises); failing: the index of the          *)
(* recipient whose sendmail raises, 0 when none does, and one more than    *)
(* the number of recipients when every sendmail works and the QUIT sent on *)
(* leaving the with block raises.                                          *)
(***************************************************************************)
LoginOutcomes == {"ok", "auth_error", "login_error", "smtp_error", "error"}

\* the login outcomes in which server.login was called
LoginsOf(login) == IF login \in {"ok", "auth_error", "login_error"} THEN 1 ELSE 0

\* line 59: what sendmail hands over for one recipient
Message(recipient, subject, html_content) ==
    [to |-> recipient, subject |-> subject, html |-> html_content]

\* lines 33-39: the two early returns
MissingMailInput(recipients, sender, app_password) ==
    sender = None \/ app_password = None \/ recipients = <<>>

\* A sender that swallows the failure of a sendmail and reports success.
send_email_swallows_failure(subject, html_content, recipients, sender, app_password, login, failing) ==
    IF sender = None \/ app_password = None \/ recipients = <<>>
    THEN [exc |-> FALSE, value |-> FALSE, connects |-> 0, logins |-> 0,
          attempts |-> <<>>, sent |-> <<>>]
    ELSE IF login # "ok"
    THEN [exc |-> FALSE, value |-> FALSE, connects |-> 1, logins |-> LoginsOf(login),
          attempts |-> <<>>, sent |-> <<>>]
    ELSE [exc |-> FALSE, value |-> TRUE, connects |-> 1, logins |-> 1,
          attempts |-> recipients,
          sent |-> [i \in {j \in 1..Len(recipients) : j < failing \/ failing = 0}
                       |-> Message(recipients[i], subject, html_content)]]

\* value: what send_email returns; connects, logins: the calls of SMTP_SSL(...)
\* and server.login; attempts: the recipients sendmail was called for; sent:
\* the messages handed over.
send_email(subject, html_content, recipients, sender, app_password, login, failing) ==
    IF sender = None \/ app_password = None
    THEN [exc |-> FALSE, value |-> FALSE, connects |-> 0, logins |-> 0,
          attempts |-> <<>>, sent |-> <<>>]
    ELSE IF recipients = <<>>
    THEN [exc |-> FALSE, value |-> FALSE, connects |-> 0, logins |-> 0,
          attempts |-> <<>>, sent |-> <<>>]
    ELSE IF login # "ok"
    THEN [exc |-> FALSE, value |-> FALSE, connects |-> 1, logins |-> LoginsOf(login),
          attempts |-> <<>>, sent |-> <<>>]
    ELSE LET upto == IF failing = 0 THEN Len(recipients) ELSE failing - 1
             tried == IF failing = 0 \/ failing > Len(recipients)
                      THEN Len(recipients) ELSE failing
         IN [exc |-> FALSE, value |-> failing = 0, connects |-> 1, logins |-> 1,
             attempts |-> SubSeq(recipients, 1, tried),
             sent |-> [i \in 1..upto |-> Message(recipients[i], subject, html_content)]]

(***************************************************************************)
(* config.py                                                               *)
(***************************************************************************)
\* The environment of lines 14-44.  ENABLE_PREDICTION is on, its default, in
\* every configuration, and off in those of the official endpoint with the
\* report in Chinese.
Configs ==
    {c \in [ANTHROPIC_API_KEY : {None, "sk-key"},
            ANTHROPIC_BASE_URL : {OfficialUrl, ProxyUrl},
            FINNHUB_API_KEY : {None, "fh-key"},
            GMAIL_USER : {None, "me@gmail.com"},
            GMAIL_APP_PASSWORD : {None, "app-pass"},
            RECIPIENT_EMAILS : {SubSeq(Addresses, 1, k) : k \in 0..MaxRecipients},
            STOCK_SYMBOLS : SeqsUpTo(SymbolNames, MaxSymbols),
            REPORT_LANGUAGE : {"zh", "en"},
            ENABLE_PREDICTION : BOOLEAN] :
        c.ENABLE_PREDICTION
            \/ (c.ANTHROPIC_BASE_URL = OfficialUrl /\ c.REPORT_LANGUAGE = "zh")}

\* A validation that does not look at the recipients.
ValidateErrors_recipients_unchecked(c) ==
    (IF c.ANTHROPIC_API_KEY = None THEN <<"ANTHROPIC_API_KEY">> ELSE <<>>) \o
    (IF c.FINNHUB_API_KEY = None THEN <<"FINNHUB_API_KEY">> ELSE <<>>) \o
    (IF c.GMAIL_USER = None THEN <<"GMAIL_USER">> ELSE <<>>) \o
    (IF c.GMAIL_APP_PASSWORD = None THEN <<"GMAIL_APP_PASSWORD">> ELSE <<>>) \o
    (IF c.STOCK_SYMBOLS = <<>> THEN <<"STOCK_SYMBOLS">> ELSE <<>>)

\* Config.validate (lines 46-67): the list of what is missing
ValidateErrors(c) ==
    (IF c.ANTHROPIC_API_KEY = None THEN <<"ANTHROPIC_API_KEY">> ELSE <<>>) \o
    (IF c.FINNHUB_API_KEY = None THEN <<"FINNHUB_API_KEY">> ELSE <<>>) \o
    (IF c.GMAIL_USER = None THEN <<"GMAIL_USER">> ELSE <<>>) \o
    (IF c.GMAIL_APP_PASSWORD = None THEN <<"GMAIL_APP_PASSWORD">> ELSE <<>>) \o
    (IF c.RECIPIENT_EMAILS = <<>> THEN <<"RECIPIENT_EMAILS">> ELSE <<>>) \o
    (IF c.STOCK_SYMBOLS = <<>> THEN <<"STOCK_SYMBOLS">> ELSE <<>>)

(***************************************************************************)
(* main.py: run_digest, then main.                                         *)
(***************************************************************************)
NoReport == [stocks |-> <<>>, symbols |-> <<>>, language |-> None]
NoResult == [returned |-> FALSE]
NoCfg == [REPORT_LANGUAGE |-> None]
NoSmtp == [logins |-> 0, sent |-> <<>>]
NoSeen == [fetch_raised |-> {}, info_raised |-> {}, sites |-> <<>>, log |-> <<>>]

\* the entry of the log of a run for a call of a stage
Stage(stage, symbol) == [stage |-> stage, symbol |-> symbol]

Failure(error) == [returned |-> TRUE, success |-> FALSE, error |-> error]

\* lines 152-159
Subject(language, test) ==
    (IF test THEN <<"[TEST] ">> ELSE <<>>) \o
    (IF language = "zh" THEN <<"zh:daily-stock-brief | ", "date">>
                        ELSE <<"Daily Stock Brief | ", "date">>)

\* lines 123-126: the placeholder run_digest writes when the summarizer raises
PlaceholderText(symbol, language, e) ==
    IF language = "zh"
    THEN <<"## ", symbol, "\n\n", "zh:summary-generation-failed", ": ", e>>
    ELSE <<"## ", symbol, "\n\n", "Summary generation failed", ": ", e>>

RECURSIVE TotalNews(_)
\* line 73
TotalNews(d) == IF d = <<>> THEN 0 ELSE Len(Head(d)[2]) + TotalNews(Tail(d))

\* lines 40-57 (main calls run_digest without test_symbol)
Validate ==
    /\ pc = "validate"
    /\ IF ValidateErrors(cfg) # <<>>
       THEN /\ result' = Failure(<<"zh:config-validation-failed">> \o ValidateErrors(cfg))
            /\ pc' = "returned"
            /\ symbols' = symbols
       ELSE /\ symbols' = IF is_test /\ cfg.STOCK_SYMBOLS # <<>>
                          THEN <<cfg.STOCK_SYMBOLS[1]>>
                          ELSE cfg.STOCK_SYMBOLS
            /\ pc' = "news"
            /\ result' = result
    /\ idx' = 1
    /\ UNCHANGED <<mode, cfg, is_test, news_data, stock_info, summaries, html_report,
                   email_sent, exit_code, smtp, touched, seen, sumVars>>

\* A run that asks for the prediction section when the flag is set.
IncludePrediction_by_flag(c) == c.ENABLE_PREDICTION

\* lines 110-117: run_digest does not pass include_prediction, whatever the
\* configuration; the parameter takes its default (ai_summarizer.py:121)
IncludePrediction(c) == FALSE

\* lines 135-140: run_digest does not pass predictions, whatever the
\* configuration; the parameter takes its default, None
RunPredictions(c) == <<>>

\* lines 66-77 with news_fetcher.py:207-230: one iteration of fetch_news
FetchNews ==
    /\ pc = "news"
    /\ idx <= Len(symbols)
    /\ \E primary \in SourceOutcomes(symbols[idx], "finnhub"),
          secondary \in SourceOutcomes(symbols[idx], "yfinance") :
          LET r == FetchSymbol(cfg.FINNHUB_API_KEY, NEWS_LOOKBACK_DAYS, Now,
                               primary, secondary) IN
          /\ seen' = [seen EXCEPT !.fetch_raised =
                         IF AllSourcesRaised(cfg.FINNHUB_API_KEY, primary, secondary)
                         THEN @ \cup {symbols[idx]} ELSE @ \ {symbols[idx]},
                                  !.log = Append(@, Stage("news", symbols[idx]))]
          /\ IF r.exc
             THEN /\ result' = Failure(<<"zh:news-fetch-failed: ", "error">>)
                  /\ pc' = "returned"
                  /\ UNCHANGED <<news_data, idx>>
             ELSE /\ news_data' = DictSet(news_data, Normalize(symbols[idx]), r.value)
                  /\ idx' = IF idx = Len(symbols) THEN 1 ELSE idx + 1
                  /\ pc' = IF idx = Len(symbols) THEN "info" ELSE pc
                  /\ result' = result
    /\ touched' = touched \cup {"news"}
    /\ UNCHANGED <<mode, cfg, is_test, symbols, stock_info, summaries, html_report,
                   email_sent, exit_code, smtp, sumVars>>

\* lines 85-96: one iteration of the snapshot loop
GetInfo ==
    /\ pc = "info"
    /\ idx <= Len(symbols)
    /\ \E info \in InfoOutcomes : \E hist \in RunHistOutcomes(info) :
          LET r == get_stock_info(symbols[idx], info, hist) IN
          /\ stock_info' = DictSet(stock_info, symbols[idx],
                                   IF r.exc THEN FallbackInfo(symbols[idx]) ELSE r.value)
          /\ seen' = [seen EXCEPT !.info_raised =
                         IF info.raises THEN @ \cup {symbols[idx]}
                         ELSE @ \ {symbols[idx]},
                                  !.log = Append(@, Stage("info", symbols[idx]))]
    /\ touched' = touched \cup {"market"}
    /\ idx' = IF idx = Len(symbols) THEN 1 ELSE idx + 1
    /\ pc' = IF idx = Len(symbols) THEN "summarize" ELSE pc
    /\ UNCHANGED <<mode, cfg, is_test, symbols, news_data, summaries, html_report,
                   email_sent, result, exit_code, smtp, sumVars>>

\* lines 105-117: summarize_stock_news is called for the next symbol
CallSummarizer ==
    /\ pc = "summarize"
    /\ spc = "idle"
    /\ idx <= Len(symbols)
    /\ call' = [symbol |-> symbols[idx],
                news_list |-> DictGet(news_data, symbols[idx], <<>>),
                api_key |-> cfg.ANTHROPIC_API_KEY,
                base_url |-> cfg.ANTHROPIC_BASE_URL,
                language |-> cfg.REPORT_LANGUAGE,
                include_prediction |-> IncludePrediction(cfg)]
    /\ spc' = "entry"
    /\ seen' = [seen EXCEPT !.log = Append(@, Stage("summarize", symbols[idx]))]
    /\ UNCHANGED <<mode, cfg, is_test, pc, symbols, idx, news_data, stock_info,
                   summaries, html_report, email_sent, result, exit_code, smtp,
                   touched, attempt, model_ix, model_error, last_error, ret, probe>>

\* A loop that goes to the assembly as soon as one summary is stored.
StoreSummary_early_report ==
    /\ pc = "summarize"
    /\ spc \in {"returned", "raised"}
    /\ summaries' = DictSet(summaries, symbols[idx],
                            IF spc = "raised"
                            THEN PlaceholderText(symbols[idx], cfg.REPORT_LANGUAGE,
                                                 "error")
                            ELSE ret.text)
    /\ seen' = [seen EXCEPT !.sites =
                   DictSet(@, symbols[idx], IF spc = "raised" THEN "raised" ELSE ret.site)]
    /\ idx' = 1
    /\ pc' = "report"
    /\ spc' = "idle"
    /\ call' = NoCall
    /\ ret' = NoRet
    /\ UNCHANGED <<mode, cfg, is_test, symbols, news_data, stock_info, html_report,
                   email_sent, result, exit_code, smtp, touched,
                   attempt, model_ix, model_error, last_error, probe>>

\* lines 118-126: the value returned is stored, or the placeholder if the
\* call raised
StoreSummary ==
    /\ pc = "summarize"
    /\ spc \in {"returned", "raised"}
    /\ summaries' = DictSet(summaries, symbols[idx],
                            IF spc = "raised"
                            THEN PlaceholderText(symbols[idx], cfg.REPORT_LANGUAGE,
                                                 "error")
                            ELSE ret.text)
    /\ seen' = [seen EXCEPT !.sites =
                   DictSet(@, symbols[idx], IF spc = "raised" THEN "raised" ELSE ret.site)]
    /\ idx' = IF idx = Len(symbols) THEN 1 ELSE idx + 1
    /\ pc' = IF idx = Len(symbols) THEN "report" ELSE pc
    /\ spc' = "idle"
    /\ call' = NoCall
    /\ ret' = NoRet
    /\ UNCHANGED <<mode, cfg, is_test, symbols, news_data, stock_info, html_report,
                   email_sent, result, exit_code, smtp, touched,
                   attempt, model_ix, model_error, last_error, probe>>

\* An assembly whose failure does not end the run.
BuildReport_goes_on ==
    /\ pc = "report"
    /\ \E rendered \in BOOLEAN :
          html_report' = IF rendered
                         THEN build_html_report(summaries, stock_info, news_data,
                                                cfg.REPORT_LANGUAGE,
                                                RunPredictions(cfg)).value
                         ELSE html_report
    /\ pc' = "email"
    /\ seen' = [seen EXCEPT !.log = Append(@, Stage("report", None))]
    /\ UNCHANGED <<mode, cfg, is_test, symbols, idx, news_data, stock_info, summaries,
                   email_sent, result, exit_code, smtp, touched, sumVars>>

\* lines 134-144: the template engine renders the report or raises
BuildReport ==
    /\ pc = "report"
    /\ \E rendered \in BOOLEAN :
          LET built == build_html_report(summaries, stock_info, news_data,
                                         cfg.REPORT_LANGUAGE, RunPredictions(cfg)) IN
          IF rendered /\ ~built.exc
          THEN /\ html_report' = built.value
               /\ pc' = "email"
               /\ result' = result
          ELSE /\ result' = Failure(<<"zh:report-build-failed: ", "render error">>)
               /\ pc' = "returned"
               /\ html_report' = html_report
    /\ seen' = [seen EXCEPT !.log = Append(@, Stage("report", None))]
    /\ UNCHANGED <<mode, cfg, is_test, symbols, idx, news_data, stock_info, summaries,
                   email_sent, exit_code, smtp, touched, sumVars>>

\* lines 161-194
SendEmail ==
    /\ pc = "email"
    /\ \E login \in LoginOutcomes, failing \in 0..(Len(cfg.RECIPIENT_EMAILS) + 1) :
          LET r == send_email(Subject(cfg.REPORT_LANGUAGE, is_test), html_report,
                              cfg.RECIPIENT_EMAILS, cfg.GMAIL_USER,
                              cfg.GMAIL_APP_PASSWORD, login, failing)
          IN /\ smtp' = [logins |-> r.logins, sent |-> r.sent]
             /\ email_sent' = IF r.exc THEN email_sent ELSE <<r.value>>
             /\ result' = IF r.exc
                          THEN Failure(<<"zh:email-send-exception: ", "error">>)
                          ELSE IF r.value
                          THEN [returned |-> TRUE, success |-> TRUE,
                                symbols |-> symbols,
                                total_news |-> TotalNews(news_data),
                                recipients |-> cfg.RECIPIENT_EMAILS]
                          ELSE Failure(<<"zh:email-send-failed">>)
    /\ touched' = touched \cup {"smtp"}
    /\ pc' = "returned"
    /\ seen' = [seen EXCEPT !.log = Append(@, Stage("email", None))]
    /\ UNCHANGED <<mode, cfg, is_test, symbols, idx, news_data, stock_info, summaries,
                   html_report, exit_code, sumVars>>

\* lines 205-208
MainExit ==
    /\ pc = "returned"
    /\ exit_code' = IF result.success THEN 0 ELSE 1
    /\ pc' = "exited"
    /\ UNCHANGED <<mode, cfg, is_test, symbols, idx, news_data, stock_info, summaries,
                   html_report, email_sent, result, smtp, touched, seen, sumVars>>

(***************************************************************************)
(* Initial states.                                                         *)
(***************************************************************************)
\* One call of summarize_stock_news with the defaults max_retries = 3 and
\* retry_delay = 3.0.
InitSum ==
    /\ mode = "sum"
    /\ call \in [symbol : {"BBB"},
                 news_list : {<<>>, <<FinnhubItem(NewsItem("BBB", "finnhub"))>>},
                 api_key : {None, "sk-key"},
                 base_url : {OfficialUrl, ProxyUrl},
                 language : {"zh", "en"},
                 include_prediction : BOOLEAN]
    /\ spc = "entry"
    /\ attempt = 0 /\ model_ix = 1 /\ model_error = None /\ last_error = None
    /\ ret = NoRet
    /\ probe = NoProbe
    /\ cfg = NoCfg /\ is_test = FALSE /\ pc = "none" /\ symbols = <<>> /\ idx = 0
    /\ news_data = <<>> /\ stock_info = <<>> /\ summaries = <<>>
    /\ html_report = NoReport /\ email_sent = <<>> /\ result = NoResult
    /\ exit_code = -1 /\ smtp = NoSmtp /\ touched = {}
    /\ seen = NoSeen

\* The process is started with some configuration in the environment.
InitRun ==
    /\ mode = "run"
    /\ cfg \in Configs
    /\ is_test \in BOOLEAN
    /\ pc = "validate" /\ symbols = <<>> /\ idx = 0
    /\ news_data = <<>> /\ stock_info = <<>> /\ summaries = <<>>
    /\ html_report = NoReport /\ email_sent = <<>> /\ result = NoResult
    /\ exit_code = -1 /\ smtp = NoSmtp /\ touched = {}
    /\ seen = NoSeen
    /\ call = NoCall /\ spc = "idle"
    /\ attempt = 0 /\ model_ix = 1 /\ model_error = None /\ last_error = None
    /\ ret = NoRet
    /\ probe = NoProbe

Init == InitRun \/ InitSum

Next ==
    \/ Validate
    \/ FetchNews
    \/ GetInfo
    \/ CallSummarizer
    \/ SumEntry
    \/ SumCall
    \/ StoreSummary
    \/ BuildReport
    \/ SendEmail
    \/ MainExit

Spec == Init /\ [][Next]_vars

\* summarize_stock_news called on its own; every LLM call it makes comes
\* back, with a message or with an exception, so a step that can be taken
\* is taken in the end.
NextSum ==
    \/ SumEntry
    \/ SumCall

SpecSum == InitSum /\ [][NextSum]_vars /\ WF_vars(NextSum)

(***************************************************************************)
(* The components called on their own, as tests/test_run.py calls them:    *)
(* mode names the function, call holds its arguments and what its          *)
(* collaborators will do, ret what it returned.                            *)
(***************************************************************************)
IdleRun ==
    /\ cfg = NoCfg /\ is_test = FALSE /\ pc = "none" /\ symbols = <<>> /\ idx = 0
    /\ news_data = <<>> /\ stock_info = <<>> /\ summaries = <<>>
    /\ html_report = NoReport /\ email_sent = <<>> /\ result = NoResult
    /\ exit_code = -1 /\ smtp = NoSmtp /\ touched = {}
    /\ seen = NoSeen
    /\ attempt = 0 /\ model_ix = 1 /\ model_error = None /\ last_error = None
    /\ probe = NoProbe

\* The function named by mode returns a value or raises: the call is over.
CallReturns(value) ==
    /\ spc = "entry"
    /\ ret' = value
    /\ spc' = IF value.exc THEN "raised" ELSE "returned"
    /\ UNCHANGED <<mode, call, runVars, attempt, model_ix, model_error, last_error,
                   probe>>

InitGetStockInfo ==
    /\ mode = "get_stock_info"
    /\ call \in [symbol : {"BBB"}, info : AllInfoOutcomes, hist : HistOutcomes]
    /\ spc = "entry" /\ ret = NoRet
    /\ IdleRun

GetStockInfoCall ==
    /\ mode = "get_stock_info"
    /\ CallReturns(get_stock_info(call.symbol, call.info, call.hist))

\* fetch_news(symbols, days_back, finnhub_api_key), called at the time now;
\* idx counts the symbols done, news_data is the result dict being filled.
InitFetchNews ==
    /\ mode = "fetch_news"
    /\ call \in [symbols : {<<"BBB">>, <<"BBB", "CCC">>, <<" bbb", "BBB">>},
                 days_back : {-1, 0, 1, 2, 41},
                 finnhub_api_key : {None, "fh-key"},
                 now : {Now}]
    /\ spc = "entry" /\ ret = NoRet
    /\ IdleRun

\* news_fetcher.py:207-231: one iteration of the loop over the symbols
FetchNewsStep ==
    /\ mode = "fetch_news"
    /\ spc = "entry"
    /\ idx < Len(call.symbols)
    /\ LET symbol == Normalize(call.symbols[idx + 1]) IN
       \E primary \in AllSourceOutcomes(symbol, "finnhub"),
          secondary \in AllSourceOutcomes(symbol, "yfinance") :
          LET r == FetchSymbol(call.finnhub_api_key, call.days_back, call.now,
                               primary, secondary) IN
          /\ probe' = [symbol |-> symbol, primary |-> primary,
                       secondary |-> secondary, step |-> r]
          /\ seen' = [seen EXCEPT !.fetch_raised =
                         IF AllSourcesRaised(call.finnhub_api_key, primary, secondary)
                         THEN @ \cup {symbol} ELSE @ \ {symbol},
                                  !.log = @ \o FetchEvents(call.finnhub_api_key, idx,
                                                           Len(call.symbols), r)]
          /\ IF r.exc
             THEN /\ spc' = "raised"
                  /\ ret' = Raises(r.value)
                  /\ UNCHANGED <<news_data, idx>>
             ELSE /\ news_data' = DictSet(news_data, symbol, r.value)
                  /\ idx' = idx + 1
                  /\ UNCHANGED <<spc, ret>>
    /\ UNCHANGED <<mode, call, cfg, is_test, pc, symbols, stock_info, summaries,
                   html_report, email_sent, result, exit_code, smtp, touched,
                   attempt, model_ix, model_error, last_error>>

\* line 233: return result
FetchNewsReturn ==
    /\ mode = "fetch_news"
    /\ idx = Len(call.symbols)
    /\ CallReturns(Returns(news_data))

\* The prediction fields of the card of BBB, for a dict of predictions.
InitTrend ==
    /\ mode = "trend"
    /\ call \in [symbol : {"BBB"},
                 predictions : {<<>>} \cup {<<<<"BBB", text>>>> : text \in SUBSET TrendWords}]
    /\ spc = "entry" /\ ret = NoRet
    /\ IdleRun

TrendCall ==
    /\ mode = "trend"
    /\ CallReturns(Returns(PredictionFields(call.predictions, call.symbol)))

\* _markdown_to_html called on its own, on a text of up to MaxLines lines:
\* list items with each kind of marker, a heading, bold text, a plain
\* sentence, an indented item and an empty line.
MarkdownLines ==
    { <<"- ", "Revenue up.">>,
      <<"* ", "Margin flat.">>,
      <<"1. ", "First point.">>,
      <<"4. ", "Fourth point.">>,
      <<"### ", "Outlook">>,
      <<"**", "Risk", "**", " rising.">>,
      <<"Plain sentence.">>,
      <<" ", "- ", "Indented.">>,
      <<>> }

RECURSIVE JoinLines(_)
JoinLines(lines) ==
    IF Len(lines) = 1 THEN Head(lines)
    ELSE Head(lines) \o <<"\n">> \o JoinLines(Tail(lines))

InitMarkdown ==
    /\ mode = "_markdown_to_html"
    /\ \E n \in 1..MaxLines : \E lines \in [1..n -> MarkdownLines] :
          call = [lines |-> lines, markdown_text |-> JoinLines(lines)]
    /\ spc = "entry" /\ ret = NoRet
    /\ IdleRun

MarkdownCall ==
    /\ mode = "_markdown_to_html"
    /\ CallReturns(Returns(_markdown_to_html(call.markdown_text)))

\* build_html_report called on its own: the card of BBB for a snapshot with or
\* without change_percent and a news list of up to 11 items, some of them
\* without URL; CCC, when present, has a fixed snapshot and one item.
Headlines == <<"h01", "h02", "h03", "h04", "h05", "h06", "h07", "h08", "h09",
               "h10", "h11">>

ReportItem(i, linked) ==
    [FinnhubItem(NewsItem("BBB", "finnhub")) EXCEPT
        !.title = Headlines[i], !.url = IF linked THEN @ ELSE ""]

ReportNewsLists ==
    {[i \in 1..n |-> ReportItem(i, i \notin unlinked)] :
        n \in {0, 1, 4, 5, 6, 10, 11}, unlinked \in SUBSET {1, 3, 5, 6, 10, 11}}

\* a dict without one of its keys
Without(d, key) == [k \in DOMAIN d \ {key} |-> d[k]]

\* news lists with an item that lacks its title, its url, or both
MalformedNewsLists ==
    {<<Without(ReportItem(1, TRUE), "title"), ReportItem(2, TRUE)>>,
     <<ReportItem(1, TRUE), Without(ReportItem(2, TRUE), "url")>>,
     <<Without(Without(ReportItem(1, TRUE), "title"), "url")>>}

\* snapshots without change_percent, with a change_percent of None, and with
\* a number
ReportSnapshots ==
    {[company_name |-> "Acme"],
     [company_name |-> "Acme", change |-> 0, change_percent |-> NoneVal]}
    \cup {[company_name |-> "Acme", change |-> c \div 10, change_percent |-> Num(c)] :
             c \in {-250, 0, 350}}

InitReport ==
    /\ mode = "build_html_report"
    /\ \E info \in {<<>>} \cup {<<s>> : s \in ReportSnapshots},
          news \in {<<>>} \cup {<<l>> : l \in ReportNewsLists \cup MalformedNewsLists},
          summary \in {<<>>, <<"Good quarter.">>}, two \in BOOLEAN,
          predictions \in {<<>>, <<<<"BBB", {"Bullish", "Outlook"}>>>>} :
          call = [summaries |-> <<<<"BBB", summary>>>>
                                \o (IF two THEN <<<<"CCC", <<"Flat.">>>>>> ELSE <<>>),
                  stock_info |-> [i \in 1..Len(info) |-> <<"BBB", info[i]>>]
                                 \o (IF two
                                     THEN <<<<"CCC", [company_name |-> "Cee",
                                                      change |-> 35,
                                                      change_percent |-> Num(350)]>>>>
                                     ELSE <<>>),
                  news_data |-> [i \in 1..Len(news) |-> <<"BBB", news[i]>>]
                                \o (IF two
                                    THEN <<<<"CCC", <<FinnhubItem(NewsItem("CCC", "finnhub"))>>>>>>
                                    ELSE <<>>),
                  language |-> "zh",
                  predictions |-> predictions]
    /\ spc = "entry" /\ ret = NoRet
    /\ IdleRun

ReportCall ==
    /\ mode = "build_html_report"
    /\ CallReturns(build_html_report(call.summaries, call.stock_info,
                                     call.news_data, call.language,
                                     call.predictions))

\* send_email called on its own, one statement at a time: smtp is what the
\* server has seen, idx counts the sendmail calls that returned, probe the
\* connections opened and the recipients sendmail was called for.
NoMail == [connects |-> 0, attempts |-> <<>>, failed |-> 0]

InitSendEmail ==
    /\ mode = "send_email"
    /\ \E recipients \in {SubSeq(Addresses, 1, k) : k \in 0..(MaxRecipients + 1)}
                         \cup {<<Addresses[1], Addresses[1]>>},
          sender \in {None, "me@gmail.com"}, app_password \in {None, "app-pass"},
          login \in LoginOutcomes :
          \E failing \in 0..(Len(recipients) + 1) :
             call = [subject |-> <<"zh:subject">>, html_content |-> "<html>",
                     recipients |-> recipients, sender |-> sender,
                     app_password |-> app_password, login |-> login,
                     failing |-> failing]
    /\ spc = "entry" /\ ret = NoRet
    /\ cfg = NoCfg /\ is_test = FALSE /\ pc = "none" /\ symbols = <<>> /\ idx = 0
    /\ news_data = <<>> /\ stock_info = <<>> /\ summaries = <<>>
    /\ html_report = NoReport /\ email_sent = <<>> /\ result = NoResult
    /\ exit_code = -1 /\ smtp = NoSmtp /\ touched = {} /\ seen = NoSeen
    /\ attempt = 0 /\ model_ix = 1 /\ model_error = None /\ last_error = None
    /\ probe = NoMail

\* what the statements of send_email leave alone
MailFrame ==
    UNCHANGED <<mode, call, cfg, is_test, pc, symbols, news_data, stock_info,
                summaries, html_report, email_sent, result, exit_code, touched,
                seen, attempt, model_ix, model_error, last_error>>

\* A start that opens the connection before looking at its arguments.
MailConnect_unchecked ==
    /\ mode = "send_email" /\ spc = "entry"
    /\ probe' = [probe EXCEPT !.connects = @ + 1]
    /\ smtp' = [smtp EXCEPT !.logins = @ + LoginsOf(call.login)]
    /\ IF call.login = "ok" /\ call.recipients # <<>>
       THEN spc' = "sending" /\ UNCHANGED ret
       ELSE spc' = "returned" /\ ret' = Returns(FALSE)
    /\ UNCHANGED idx
    /\ MailFrame

\* lines 33-55: the early returns, then SMTP_SSL(...) and server.login, whose
\* exceptions the handlers of lines 64-75 turn into False
MailConnect ==
    /\ mode = "send_email" /\ spc = "entry"
    /\ IF MissingMailInput(call.recipients, call.sender, call.app_password)
       THEN /\ spc' = "returned" /\ ret' = Returns(FALSE)
            /\ UNCHANGED <<smtp, probe>>
       ELSE /\ probe' = [probe EXCEPT !.connects = @ + 1]
            /\ smtp' = [smtp EXCEPT !.logins = @ + LoginsOf(call.login)]
            /\ IF call.login = "ok"
               THEN spc' = "sending" /\ UNCHANGED ret
               ELSE spc' = "returned" /\ ret' = Returns(FALSE)
    /\ UNCHANGED idx
    /\ MailFrame

\* A loop that goes on to the next recipient after a failed sendmail.
MailSendOne_goes_on ==
    /\ mode = "send_email" /\ spc = "sending"
    /\ idx < Len(call.recipients)
    /\ probe' = [probe EXCEPT !.attempts = Append(@, call.recipients[idx + 1]),
                              !.failed = IF call.failing = idx + 1 THEN idx + 1 ELSE @]
    /\ smtp' = IF call.failing = idx + 1 THEN smtp
               ELSE [smtp EXCEPT !.sent = Append(@, Message(call.recipients[idx + 1],
                                                         call.subject, call.html_content))]
    /\ idx' = idx + 1
    /\ UNCHANGED <<spc, ret>>
    /\ MailFrame

\* lines 58-59: sendmail for the next recipient; when it raises, the handlers
\* of lines 69-75 return False
MailSendOne ==
    /\ mode = "send_email" /\ spc = "sending"
    /\ idx < Len(call.recipients)
    /\ probe' = [probe EXCEPT !.attempts = Append(@, call.recipients[idx + 1]),
                              !.failed = IF call.failing = idx + 1 THEN idx + 1 ELSE @]
    /\ IF call.failing = idx + 1
       THEN /\ spc' = "returned" /\ ret' = Returns(FALSE)
            /\ UNCHANGED <<smtp, idx>>
       ELSE /\ smtp' = [smtp EXCEPT !.sent = Append(@, Message(call.recipients[idx + 1],
                                                              call.subject,
                                                              call.html_content))]
            /\ idx' = idx + 1
            /\ UNCHANGED <<spc, ret>>
    /\ MailFrame

\* lines 54, 61-62: leaving the with block sends QUIT; return True, or False
\* when QUIT raised
MailClose ==
    /\ mode = "send_email" /\ spc = "sending"
    /\ idx = Len(call.recipients)
    /\ spc' = "returned"
    /\ ret' = Returns(call.failing # Len(call.recipients) + 1)
    /\ UNCHANGED <<smtp, idx, probe>>
    /\ MailFrame

\* get_stock_prediction called on its own; client: what Anthropic(...) does
InitPrediction ==
    /\ mode = "get_stock_prediction"
    /\ call \in [symbol : {"BBB"}, news_list : {<<>>, <<FinnhubItem(NewsItem("BBB", "finnhub"))>>},
                 api_key : {None, "sk-key"}, base_url : {None, ProxyUrl},
                 language : {"zh", "en"}, client : {"ok", "other", "other_long"}]
    /\ spc = "entry" /\ ret = NoRet
    /\ cfg = NoCfg /\ is_test = FALSE /\ pc = "none" /\ symbols = <<>> /\ idx = 0
    /\ news_data = <<>> /\ stock_info = <<>> /\ summaries = <<>>
    /\ html_report = NoReport /\ email_sent = <<>> /\ result = NoResult
    /\ exit_code = -1 /\ smtp = NoSmtp /\ touched = {} /\ seen = NoSeen
    /\ attempt = 0 /\ model_ix = 1 /\ model_error = None /\ last_error = None
    /\ probe = NoPrediction

InitCalls ==
    \/ InitGetStockInfo
    \/ InitFetchNews
    \/ InitTrend
    \/ InitMarkdown
    \/ InitReport
    \/ InitSendEmail
    \/ InitPrediction

NextCalls ==
    \/ GetStockInfoCall
    \/ FetchNewsStep
    \/ FetchNewsReturn
    \/ TrendCall
    \/ MarkdownCall
    \/ ReportCall
    \/ MailConnect
    \/ MailSendOne
    \/ MailClose
    \/ PredEntry
    \/ PredCall

SpecCalls == InitCalls /\ [][NextCalls]_vars

(***************************************************************************)
(* Properties.                                                             *)
(***************************************************************************)
Has(seq, token) == \E i \in 1..Len(seq) : seq[i] = token

\* The entries of a sequence without repetition, each at its first place.
DistinctInOrder(seq) ==
    LET firsts == {i \in 1..Len(seq) : \A j \in 1..(i - 1) : seq[j] # seq[i]}
    IN [k \in 1..Cardinality(firsts) |->
           seq[CHOOSE i \in firsts : Cardinality({j \in firsts : j < i}) = k - 1]]

ReportBuilt == mode = "run" /\ html_report # NoReport
RunOver == mode = "run" /\ pc \in {"returned", "exited"}

CardSymbols == [i \in 1..Len(html_report.stocks) |-> html_report.stocks[i].symbol]
HasCard(sym) == \E i \in 1..Len(html_report.stocks) : html_report.stocks[i].symbol = sym
Card(sym) ==
    html_report.stocks[CHOOSE i \in 1..Len(html_report.stocks) :
                           html_report.stocks[i].symbol = sym]

NoNewsToken(language) ==
    IF language = "zh" THEN "zh:no-major-news-today" ELSE "No major news events today."
FailureMarker(language) ==
    IF language = "zh" THEN "zh:summary-generation-failed" ELSE "Summary generation failed"

\* C1 as stated: the report of a run has one card per entry of the list of
\* requested symbols, in request order, so two cards for a symbol named twice.
C1_CardPerEntry == ReportBuilt => CardSymbols = symbols

\* C1 amended: the report of a run has exactly one card per distinct requested
\* symbol, in the order of first occurrence in the request, whatever per-stage
\* failures occurred; a symbol named twice has one card.
C1_CardPerDistinctSymbol ==
    ReportBuilt =>
        /\ symbols # <<>>
        /\ CardSymbols = DistinctInOrder(symbols)
        /\ html_report.symbols = DistinctInOrder(symbols)

\* A report was built for a list naming BBB twice, after BBB's news sources
\* raised and its snapshot failed: one card.
C1_Witness ==
    /\ ReportBuilt
    /\ symbols = <<"BBB", "BBB">>
    /\ "BBB" \in seen.fetch_raised
    /\ "BBB" \in seen.info_raised
    /\ Len(html_report.stocks) = 1

\* The run of C2: valid configuration over [BBB, CCC], every news source asked
\* for BBB raised, news was fetched for CCC and summarized, the report was
\* assembled and delivered.
C2_Scenario ==
    /\ RunOver
    /\ symbols = <<"BBB", "CCC">>
    /\ "BBB" \in seen.fetch_raised
    /\ DictGet(news_data, "CCC", <<>>) # <<>>
    /\ DictGet(seen.sites, "CCC", None) = "success"
    /\ html_report # NoReport
    /\ email_sent = <<TRUE>>

C2_EmptyNewsCard(sym) ==
    /\ HasCard(sym)
    /\ Has(Card(sym).summary, NoNewsToken(cfg.REPORT_LANGUAGE))
    /\ ~Has(Card(sym).summary, FailureMarker(cfg.REPORT_LANGUAGE))
    /\ Card(sym).news_count = 0
    /\ Card(sym).news_links = <<>>

C2_RealCard(sym) ==
    /\ HasCard(sym)
    /\ Card(sym).summary = SuccessText(sym, sym, cfg.REPORT_LANGUAGE, LLMText(sym))
    /\ Card(sym).news_count = 1
    /\ Card(sym).news_links = <<[title |-> "X raises guidance",
                                 url |-> ArticleUrl(sym, 1)]>>
    /\ Card(sym).company_name = DictGet(stock_info, sym, NoInfo).company_name
    /\ Card(sym).change_percent = DictGet(stock_info, sym, NoInfo).change_percent

SumOver == mode = "sum" /\ spc = "returned"

\* C3: when every LLM call made raises an authentication error,
\* summarize_stock_news makes exactly one LLM call and returns the formatted
\* error whose text has the authentication-failure wording.
C3_AuthSingleCall ==
    (SumOver /\ probe.calls >= 1 /\ probe.kinds \subseteq {"auth401", "auth"}) =>
        /\ probe.calls = 1
        /\ Has(ret.text, FailureMarker(call.language))
        /\ Has(ret.text, "zh:authentication-failed: ")

\* C4: when the first two LLM calls fail with a rate-limit error and the third
\* succeeds, the result is the header and the generated text, and the waits
\* before the successful call are retry_delay * 1 then retry_delay * 2 (the
\* wait after the successful call is the pacing sleep of line 222).
C4_TwoBackoffs ==
    (SumOver /\ probe.calls = 3 /\ probe.kinds = {"rate", "ok"}
        /\ probe.lastCall[1].kind = "ok") =>
        /\ ret.text = Title(call.symbol, call.symbol, call.language)
                          \o <<"\n\n", "Good quarter.">>
        /\ probe.waits = <<retry_delay * 1, retry_delay * 2, retry_delay>>

FailureSites == {"no_key", "auth", "api_auth", "exc_auth", "failed", "raised"}

\* the failure marker of the language, and after it a reason
CarriesFailure(text, language) ==
    \E i \in 1..Len(text) :
        /\ text[i] = FailureMarker(language)
        /\ \E j \in (i + 1)..(Len(text) - 1) :
              /\ text[j] \in {IF language = "zh" THEN "zh:error-info: " ELSE "Error: ",
                              ": "}
              /\ text[j + 1] \in {"zh:missing Anthropic API Key",
                                  "zh:authentication-failed: ",
                                  "zh:API-call-failed: ", "error"}

\* the text shown in the body of a card
CardBody(card) ==
    LET RECURSIVE Join(_)
        Join(blocks) == IF blocks = <<>> THEN <<>>
                        ELSE Head(blocks).content \o Join(Tail(blocks))
    IN Join(card.summary_html)

\* C5: whenever the narrative of a symbol fails (no credential, authentication
\* failure, retries exhausted, an unexpected exception), the text returned
\* carries the failure marker of the language and the reason, and in a run the
\* card of that symbol is in the report with that marker and reason in its body.
C5_FailureVisible ==
    /\ (SumOver /\ ret.site \in FailureSites) =>
          CarriesFailure(ret.text, call.language)
    /\ (SumOver /\ probe.calls >= 1 /\ "ok" \notin probe.kinds) =>
          ret.site \in FailureSites
    /\ ReportBuilt =>
          \A i \in 1..Len(symbols) :
              DictGet(seen.sites, symbols[i], None) \in FailureSites =>
                  /\ HasCard(symbols[i])
                  /\ Card(symbols[i]).summary # <<>>
                  /\ CarriesFailure(CardBody(Card(symbols[i])), cfg.REPORT_LANGUAGE)

\* An English report was built after the narrative of BBB ended in an
\* authentication failure and that of CCC in exhausted retries.
C5_Witness ==
    /\ ReportBuilt
    /\ cfg.REPORT_LANGUAGE = "en"
    /\ symbols = <<"BBB", "CCC">>
    /\ DictGet(seen.sites, "BBB", None) = "auth"
    /\ DictGet(seen.sites, "CCC", None) = "failed"
    /\ Has(CardBody(Card("CCC")), "Summary generation failed")

CanonicalNoNews(symbol, language) ==
    IF language = "zh"
    THEN <<"## ", symbol, "zh:(", symbol, "zh:)", "\n\n", "zh:no-major-news-today">>
    ELSE <<"## ", symbol, " (", symbol, ")", "\n\n", "No major news events today.">>

\* C6 as stated: whenever the news list of a symbol is empty,
\* summarize_stock_news returns the canonical no-major-news message for the
\* language without any LLM call.
C6_EmptyNewsAlways ==
    (SumOver /\ call.news_list = <<>>) =>
        /\ ret.text = CanonicalNoNews(call.symbol, call.language)
        /\ probe.calls = 0

\* C6 amended: whenever the news list is empty and an API credential is given,
\* summarize_stock_news returns the canonical no-major-news message for the
\* language without any LLM call and without constructing a client (without a
\* credential the result is the formatted error of C7).  A run none of whose
\* symbols has news makes no LLM call.
C6_EmptyNewsWithCredential ==
    /\ (mode = "sum" /\ call.news_list = <<>> /\ call.api_key # None
           /\ spc # "entry") =>
          /\ spc = "returned"
          /\ ret.text = CanonicalNoNews(call.symbol, call.language)
          /\ probe.calls = 0 /\ probe.clients = 0 /\ probe.waits = <<>>
    /\ (mode = "run" /\ pc \in {"report", "email", "returned", "exited"}
           /\ symbols # <<>>
           /\ \A i \in 1..Len(symbols) : DictGet(news_data, symbols[i], <<>>) = <<>>) =>
          /\ "llm" \notin touched
          /\ \A i \in 1..Len(symbols) :
                DictGet(summaries, symbols[i], <<>>)
                    = CanonicalNoNews(symbols[i], cfg.REPORT_LANGUAGE)

\* A call with a credential and no news has returned the message in Chinese.
C6_Witness ==
    /\ SumOver
    /\ call.news_list = <<>> /\ call.api_key # None /\ call.language = "zh"
    /\ ret.site = "no_news"
    /\ Has(ret.text, "zh:no-major-news-today")

\* C7: whenever no API credential is given, summarize_stock_news returns the
\* formatted error at once: no client is constructed, no LLM call is made and
\* no wait is performed.
C7_NoCredential ==
    (mode = "sum" /\ call.api_key = None /\ spc # "entry") =>
        /\ spc = "returned"
        /\ ret.site = "no_key"
        /\ CarriesFailure(ret.text, call.language)
        /\ Has(ret.text, "zh:missing Anthropic API Key")
        /\ probe.calls = 0 /\ probe.clients = 0 /\ probe.waits = <<>>
        /\ "llm" \notin touched

\* A call without a credential, with news and with none, has returned.
C7_Witness ==
    /\ SumOver
    /\ call.api_key = None
    /\ call.news_list = <<>>
    /\ ret.site = "no_key"

\* C8: summarize_stock_news always returns a non-empty text that starts with
\* "## <symbol>" and never raises; after the summarization stage of a run
\* every requested symbol has a non-empty summary that starts so.
C8_SummaryNeverEmpty ==
    /\ spc # "raised"
    /\ spc = "returned" =>
          /\ Len(ret.text) > 2
          /\ ret.text[1] = "## " /\ ret.text[2] = call.symbol
    /\ (mode = "run" /\ pc \in {"report", "email", "returned", "exited"}
           /\ symbols # <<>>) =>
          \A i \in 1..Len(symbols) :
              /\ DictHas(summaries, symbols[i])
              /\ Len(DictGet(summaries, symbols[i], <<>>)) > 2
              /\ DictGet(summaries, symbols[i], <<>>)[1] = "## "
              /\ DictGet(summaries, symbols[i], <<>>)[2] = symbols[i]

\* The summarization stage of a run is over; the retries for BBB were
\* exhausted and CCC had no news.
C8_Witness ==
    /\ mode = "run" /\ pc = "report"
    /\ symbols = <<"BBB", "CCC">>
    /\ DictGet(seen.sites, "BBB", None) = "failed"
    /\ DictGet(seen.sites, "CCC", None) = "no_news"

\* C9: when assembly raises, or delivery reports failure, run_digest returns
\* failure with an error naming the stage; it returns success only when
\* assembly succeeded and send_email returned true; send_email is never called
\* when assembly failed.
C9_WholeBatchFailures ==
    /\ (mode = "run" /\ pc = "email") => html_report # NoReport
    /\ (RunOver /\ symbols # <<>>) =>
          /\ result.returned
          /\ html_report = NoReport =>
                /\ ~result.success
                /\ Head(result.error) = "zh:report-build-failed: "
                /\ email_sent = <<>> /\ smtp = NoSmtp /\ "smtp" \notin touched
          /\ email_sent = <<FALSE>> =>
                /\ ~result.success
                /\ Head(result.error) = "zh:email-send-failed"
          /\ result.success <=> (html_report # NoReport /\ email_sent = <<TRUE>>)
          /\ result.success =>
                /\ Len(smtp.sent) = Len(cfg.RECIPIENT_EMAILS)
                /\ \A i \in 1..Len(smtp.sent) : smtp.sent[i].html = html_report

\* A run ended in failure after the report was assembled: the message went to
\* the first recipient and the sending to the second raised.
C9_Witness ==
    /\ RunOver
    /\ html_report # NoReport
    /\ email_sent = <<FALSE>>
    /\ Len(cfg.RECIPIENT_EMAILS) = 2
    /\ Len(smtp.sent) = 1
    /\ ~result.success

MissingConfig(c) ==
    \/ c.ANTHROPIC_API_KEY = None
    \/ c.FINNHUB_API_KEY = None
    \/ c.GMAIL_USER = None
    \/ c.GMAIL_APP_PASSWORD = None
    \/ c.RECIPIENT_EMAILS = <<>>
    \/ c.STOCK_SYMBOLS = <<>>

\* C10: a run that ends in failure because of missing configuration, an
\* assembly exception or a delivery precondition failure (no recipients or no
\* mail credential) sends no message, and the process exits with code 1; a run
\* with missing configuration makes no news, market-data or LLM call.
C10_FatalNoDelivery ==
    /\ (mode = "run" /\ MissingConfig(cfg)) =>
          /\ touched = {}
          /\ news_data = <<>> /\ stock_info = <<>> /\ summaries = <<>>
          /\ smtp = NoSmtp
          /\ pc # "validate" =>
                /\ result.returned /\ ~result.success
                /\ Head(result.error) = "zh:config-validation-failed"
    /\ (RunOver /\ result.returned /\ ~result.success
           /\ Head(result.error) \in {"zh:config-validation-failed",
                                      "zh:report-build-failed: "}) =>
          smtp.sent = <<>> /\ smtp.logins = 0
    /\ (mode = "run" /\ pc = "exited") =>
          exit_code = (IF result.success THEN 0 ELSE 1)
    /\ (mode = "run" /\ pc = "email") =>
          \A sender \in {None, cfg.GMAIL_USER}, app_password \in {None, cfg.GMAIL_APP_PASSWORD},
             recipients \in {<<>>, cfg.RECIPIENT_EMAILS}, login \in LoginOutcomes :
              (sender = None \/ app_password = None \/ recipients = <<>>) =>
                  LET r == send_email(Subject(cfg.REPORT_LANGUAGE, is_test), html_report,
                                      recipients, sender, app_password, login, 0)
                  IN ~r.exc /\ ~r.value /\ r.sent = <<>> /\ r.logins = 0

\* The process has exited with code 1 on a configuration that names symbols
\* and recipients but no mail password.
C10_Witness ==
    /\ mode = "run" /\ pc = "exited"
    /\ cfg.GMAIL_APP_PASSWORD = None
    /\ cfg.STOCK_SYMBOLS # <<>> /\ cfg.RECIPIENT_EMAILS # <<>>
    /\ exit_code = 1
    /\ Has(result.error, "GMAIL_APP_PASSWORD")
    /\ touched = {}

InfoOver == mode = "get_stock_info" /\ spc \in {"returned", "raised"}

\* C11: for every market-data response whose previousClose is missing, None,
\* zero or negative, get_stock_info returns change = 0 and change_percent = 0;
\* change_percent is (currentPrice - previousClose) / previousClose * 100,
\* rounded to two decimals, when previousClose > 0.
C11_NoDivision ==
    (InfoOver /\ ~call.info.raises) =>
        LET prev == call.info.previousClose
            cur == call.info.currentPrice
            snapshot == ret.value
        IN /\ ~ret.exc
           /\ (prev.kind # "num" \/ prev.v <= 0) =>
                 /\ snapshot.change = 0
                 /\ snapshot.change_percent = Num(0)
                 /\ snapshot.current_price = NoneVal
           /\ (prev.kind = "num" /\ prev.v > 0 /\ cur.kind = "num") =>
                 /\ snapshot.change = cur.v - prev.v
                 /\ 2 * snapshot.change_percent.v * prev.v
                        <= 2 * (cur.v - prev.v) * 10000 + prev.v
                 /\ 2 * snapshot.change_percent.v * prev.v
                        > 2 * (cur.v - prev.v) * 10000 - prev.v
           /\ (prev.kind = "num" /\ prev.v > 0 /\ cur.kind = "missing") =>
                 /\ snapshot.change = 0
                 /\ snapshot.change_percent = Num(0)

\* get_stock_info returned for a response with a negative previousClose and a
\* currentPrice of 5.00: no change is reported.
C11_Witness ==
    /\ InfoOver
    /\ call.info.previousClose = Num(-500)
    /\ call.info.currentPrice = Num(500)
    /\ ret.value.change = 0
    /\ ret.value.change_percent = Num(0)

\* C12: get_stock_info never raises; when reading the ticker info fails it
\* returns the degraded snapshot (company_name = symbol, change = 0,
\* change_percent = 0, no price, no period low or high); when only the
\* history fails it returns the company name, price, change and
\* change_percent computed from the info, with period low and high absent.
C12_SnapshotNeverRaises ==
    InfoOver =>
        /\ ~ret.exc
        /\ call.info.raises =>
              ret.value = [company_name |-> call.symbol, current_price |-> NoneVal,
                           change |-> 0, change_percent |-> Num(0),
                           week_8_low |-> NoneVal, week_8_high |-> NoneVal]
        /\ (~call.info.raises /\ call.hist.raises
               /\ call.info.currentPrice.kind = "num"
               /\ call.info.previousClose.kind = "num") =>
              /\ ret.value.week_8_low = NoneVal
              /\ ret.value.week_8_high = NoneVal
              /\ ret.value.company_name =
                     (IF call.info.longName = Absent THEN call.symbol
                      ELSE call.info.longName)
              /\ ret.value = get_stock_info(call.symbol, call.info,
                                            [raises |-> FALSE, empty |-> TRUE,
                                             low |-> 0, high |-> 0]).value
              /\ call.info.previousClose.v > 0 =>
                    /\ ret.value.change
                           = call.info.currentPrice.v - call.info.previousClose.v
                    /\ ret.value.current_price
                           = (IF call.info.currentPrice.v = 0 THEN NoneVal
                              ELSE call.info.currentPrice)

\* get_stock_info returned for Acme at 103.50 after 100.00 although the
\* history raised: the change of 3.50 % is there, the period low is not.
C12_Witness ==
    /\ InfoOver
    /\ call.hist.raises
    /\ call.info.longName = "Acme"
    /\ call.info.previousClose = Num(10000)
    /\ call.info.currentPrice = Num(10350)
    /\ ret.value.company_name = "Acme"
    /\ ret.value.change_percent = Num(350)
    /\ ret.value.week_8_low = NoneVal

\* fetch_news has done at least one symbol; probe holds what the sources did
\* for the last one and what became of it.
FetchStepDone == mode = "fetch_news" /\ idx > 0

Titles(items) == [i \in 1..Len(items) |-> <<items[i].source, items[i].title, items[i].url>>]

\* C13: for each symbol fetch_news calls the secondary source if and only if
\* the primary source yielded zero items (it returned nothing, it failed, or no
\* primary credential is configured); the news list before filtering is the
\* list of exactly one source, in that source's order, never a merge.
C13_SecondaryOnlyWhenEmpty ==
    FetchStepDone =>
        LET primary_called == call.finnhub_api_key # None
            primary_items == IF primary_called /\ ~probe.primary.raises
                             THEN probe.primary.items ELSE <<>>
            secondary_items == IF probe.secondary.raises
                               THEN <<>> ELSE probe.secondary.items
        IN /\ ~probe.step.exc
           /\ Has(probe.step.asked, "finnhub") <=> primary_called
           /\ Has(probe.step.asked, "yfinance") <=> primary_items = <<>>
           /\ probe.step.asked \in {<<"finnhub">>, <<"yfinance">>,
                                    <<"finnhub", "yfinance">>}
           /\ Titles(probe.step.unfiltered) =
                  (IF primary_items # <<>> THEN Titles(primary_items)
                   ELSE Titles(secondary_items))

\* With a credential the primary source returned an empty list without
\* failing, the secondary source was asked and its two items are the list.
C13_Witness ==
    /\ FetchStepDone
    /\ call.finnhub_api_key # None
    /\ ~probe.primary.raises /\ probe.primary.items = <<>>
    /\ probe.step.asked = <<"finnhub", "yfinance">>
    /\ Len(probe.step.unfiltered) = 2
    /\ probe.step.unfiltered[1].source = "yfinance"
    /\ probe.step.unfiltered[2].title = "X names new CFO"

NormalizedSymbols == [i \in 1..Len(call.symbols) |-> Normalize(call.symbols[i])]

\* C14: fetch_news never raises to its caller; when both sources fail for a
\* symbol its entry is the empty list and the remaining symbols are still
\* fetched, so the result has an entry for every requested symbol.
C14_FetchNeverRaises ==
    mode = "fetch_news" =>
        /\ spc # "raised"
        /\ \A i \in 1..idx : DictHas(news_data, NormalizedSymbols[i])
        /\ \A sym \in seen.fetch_raised :
              DictHas(news_data, sym) /\ DictGet(news_data, sym, <<>>) = <<>>
        /\ spc = "returned" =>
              /\ ~ret.exc
              /\ idx = Len(call.symbols)
              /\ DictKeys(ret.value) = DistinctInOrder(NormalizedSymbols)

\* fetch_news returned for [BBB, CCC]: both sources failed for BBB, whose
\* entry is empty, and CCC has its news.
C14_Witness ==
    /\ mode = "fetch_news" /\ spc = "returned"
    /\ call.symbols = <<"BBB", "CCC">>
    /\ call.finnhub_api_key # None
    /\ "BBB" \in seen.fetch_raised
    /\ DictGet(ret.value, "BBB", <<>>) = <<>>
    /\ DictGet(ret.value, "CCC", <<>>) # <<>>

\* the midnight that begins the day of time t
MidnightOf(t) == (t \div Day) * Day

\* C15: the recency filter keeps an item exactly when days_back <= 0, or its
\* published_at cannot be parsed, or its published_at is at or after midnight
\* UTC of the day of now - days_back; an item published 40 days ago is
\* dropped with days_back = 1, an item with an unparsable date is kept for
\* every days_back.
C15_RecencyFilter ==
    FetchStepDone =>
        LET Kept(item) ==
                \/ call.days_back <= 0
                \/ ~item.published_at.parsable
                \/ item.published_at.minute * 60
                       >= MidnightOf(call.now - call.days_back * Day)
            fetched == probe.step.unfiltered
        IN /\ probe.step.value = SelectSeq(fetched, Kept)
           /\ DictGet(news_data, probe.symbol, <<>>) = probe.step.value
           /\ \A i \in 1..Len(fetched) :
                 /\ (call.days_back = 1
                        /\ fetched[i].published_at = [parsable |-> TRUE,
                                                      minute |-> (Now - 40 * Day) \div 60])
                       => ~Has(probe.step.value, fetched[i])
                 /\ ~fetched[i].published_at.parsable
                       => Has(probe.step.value, fetched[i])

\* With days_back = 1 the source gave an item 40 days old and one published
\* at the midnight that begins yesterday: only the second is kept.
C15_Witness ==
    /\ FetchStepDone
    /\ call.days_back = 1
    /\ Len(probe.step.unfiltered) = 2
    /\ probe.step.unfiltered[1].published_at.minute = (Now - 40 * Day) \div 60
    /\ Len(probe.step.value) = 1
    /\ probe.step.value[1].published_at.minute * 60 = 49 * Day

TrendOver == mode = "trend" /\ spc = "returned"

BadgeDirection(label) ==
    CASE label \in {"zh:bullish [chart-up]", "Bullish [chart-up]"} -> "bullish"
      [] label \in {"zh:bearish [chart-down]", "Bearish [chart-down]"} -> "bearish"
      [] label \in {"zh:neutral [arrow-right]", "Neutral [arrow-right]"} -> "neutral"
      [] OTHER -> "none"

ClassDirection(class) ==
    CASE class = "trend-bullish" -> "bullish"
      [] class = "trend-bearish" -> "bearish"
      [] class = "trend-neutral" -> "neutral"
      [] OTHER -> "none"

HasTrendKeyword(text) == \E word \in text : Lower(word) # "outlook"

\* C16: for every prediction text the trend badge label and the trend badge
\* class denote the same direction, and both are absent exactly when the text
\* contains none of the trend keywords.
C16_BadgeMatchesClass ==
    TrendOver =>
        LET text == DictGet(call.predictions, call.symbol, {})
        IN /\ BadgeDirection(ret.value.trend_badge)
                  = ClassDirection(ret.value.trend_class)
           /\ (ret.value.trend_badge = None /\ ret.value.trend_class = None)
                  <=> ~HasTrendKeyword(text)

ReportOver == mode = "build_html_report" /\ spc = "returned"

\* the change_percent of the snapshot a card is built from, if it has one
SnapshotChange(sym) ==
    LET info == DictGet(call.stock_info, sym, NoInfo)
    IN IF "change_percent" \in DOMAIN info /\ info.change_percent.kind = "num"
       THEN <<info.change_percent.v>> ELSE <<>>

\* C17: the change class of a card is "positive" when the snapshot's
\* change_percent is above 0, "negative" when it is below 0 and "neutral" when
\* it is 0 or the snapshot has no change_percent; it is never anything else.
C17_ChangeClassBySign ==
    ReportOver =>
        \A i \in 1..Len(ret.value.stocks) :
            LET card == ret.value.stocks[i]
                cp == SnapshotChange(card.symbol)
            IN /\ card.change_class \in {"positive", "negative", "neutral"}
               /\ card.change_class = "positive" <=> (cp # <<>> /\ cp[1] > 0)
               /\ card.change_class = "negative" <=> (cp # <<>> /\ cp[1] < 0)
               /\ card.change_class = "neutral" <=> (cp = <<>> \/ cp[1] = 0)

C17_Witness ==
    /\ ReportOver
    /\ Len(ret.value.stocks) = 2
    /\ SnapshotChange("BBB") = <<>>
    /\ ret.value.stocks[1].change_class = "neutral"
    /\ SnapshotChange("CCC") = <<350>>
    /\ ret.value.stocks[2].change_class = "positive"

\* the links of the items of a list that have a URL, in the order of the list
LinkedItems(news_list) ==
    LET kept == SelectSeq(news_list,
                          LAMBDA item : "url" \in DOMAIN item /\ item.url # ""
                                        /\ item.url # None)
    IN [i \in 1..Len(kept) |->
           [title |-> IF "title" \in DOMAIN kept[i] THEN kept[i].title
                      ELSE "zh:view-details",
            url |-> kept[i].url]]

\* C18: the news links of a card are the items with a URL among the first 10
\* items of the symbol's news, in source order; at most the first 5 of them
\* are rendered; an item without a URL is never a link.
C18_NewsLinks ==
    ReportOver =>
        \A i \in 1..Len(ret.value.stocks) :
            LET card == ret.value.stocks[i]
                news_list == DictGet(call.news_data, card.symbol, <<>>)
                first10 == [k \in 1..(IF Len(news_list) < 10 THEN Len(news_list) ELSE 10)
                               |-> news_list[k]]
                rendered == RenderedLinks(card)
            IN /\ card.news_links = LinkedItems(first10)
               /\ Len(rendered) <= 5
               /\ \A k \in 1..Len(rendered) : rendered[k] = card.news_links[k]
               /\ Len(rendered) < 5 => rendered = card.news_links
               /\ \A k \in 1..Len(card.news_links) : card.news_links[k].url # ""

\* eleven items: the eleventh has a URL and is no link, the first has none and
\* is no link, and more links are kept than are rendered
C18_Witness ==
    /\ ReportOver
    /\ LET news_list == DictGet(call.news_data, "BBB", <<>>)
           card == ret.value.stocks[1]
       IN /\ Len(news_list) = 11
          /\ news_list[11].url # ""
          /\ news_list[1].url = ""
          /\ Len(card.news_links) > 5
          /\ Len(RenderedLinks(card)) = 5
          /\ card.news_links[1].title = "h02"

MailOver == mode = "send_email" /\ spc = "returned"

\* C19: send_email never raises and never retries; with no sender, no app
\* password or no recipients it returns False and no connection is opened; on
\* an authentication failure it returns False after exactly one login and no
\* sendmail; on any other transport failure it returns False.
C19_SendEmailFailsClosed ==
    mode = "send_email" =>
        LET missing == MissingMailInput(call.recipients, call.sender, call.app_password)
        IN /\ spc # "raised"
           /\ probe.connects <= 1 /\ smtp.logins <= 1
           /\ Len(probe.attempts) <= Len(call.recipients)
           /\ missing => probe.connects = 0 /\ smtp = NoSmtp
           /\ MailOver =>
                 /\ ~ret.exc
                 /\ ret.value \in BOOLEAN
                 /\ missing => ret.value = FALSE
                 /\ (~missing /\ call.login = "auth_error") =>
                        /\ ret.value = FALSE
                        /\ smtp.logins = 1
                        /\ smtp.sent = <<>> /\ probe.attempts = <<>>
                 /\ (~missing /\ (call.login # "ok" \/ call.failing # 0)) =>
                        ret.value = FALSE

C19_Witness ==
    /\ MailOver
    /\ ~MissingMailInput(call.recipients, call.sender, call.app_password)
    /\ call.login = "auth_error"
    /\ Len(call.recipients) = 2
    /\ smtp.logins = 1 /\ probe.connects = 1
    /\ ret = Returns(FALSE)

\* the messages to the first n recipients of the call
MessagesTo(n) ==
    [i \in 1..n |-> Message(call.recipients[i], call.subject, call.html_content)]

\* C20: send_email sends to the recipients one by one in list order; once the
\* send to recipient k has failed no later recipient is tried and the call
\* returns False, the recipients before k having been sent the message; the
\* call returns True only if every recipient's send succeeded.
C20_SendsInListOrder ==
    [][mode = "send_email" =>
         /\ smtp'.sent # smtp.sent =>
               /\ probe.failed = 0
               /\ Len(smtp.sent) < Len(call.recipients)
               /\ smtp'.sent = MessagesTo(Len(smtp.sent) + 1)
         /\ probe'.attempts # probe.attempts =>
               /\ probe.failed = 0
               /\ probe'.attempts = SubSeq(call.recipients, 1, Len(probe.attempts) + 1)
         /\ spc' = "returned" =>
               /\ probe'.failed # 0 =>
                     /\ ret'.value = FALSE
                     /\ smtp'.sent = MessagesTo(probe'.failed - 1)
                     /\ probe'.attempts = SubSeq(call.recipients, 1, probe'.failed)
               /\ ret'.value = TRUE =>
                     /\ probe'.failed = 0
                     /\ smtp'.sent = MessagesTo(Len(call.recipients))
    ]_vars

\* three recipients, the send to the second fails: the first has the message,
\* the third was never tried
C20_Witness ==
    /\ MailOver
    /\ Len(call.recipients) = 3
    /\ probe.failed = 2
    /\ smtp.sent = MessagesTo(1)
    /\ probe.attempts = SubSeq(call.recipients, 1, 2)
    /\ ret = Returns(FALSE)

\* the statements of send_email and the call as a whole give the same result
MailAgrees ==
    MailOver =>
        LET r == send_email(call.subject, call.html_content, call.recipients,
                            call.sender, call.app_password, call.login, call.failing)
        IN /\ ret.value = r.value
           /\ smtp = [logins |-> r.logins, sent |-> r.sent]
           /\ probe.connects = r.connects
           /\ probe.attempts = r.attempts

\* the card a report has for a symbol
CardOf(report, sym) ==
    report.stocks[CHOOSE i \in 1..Len(report.stocks) : report.stocks[i].symbol = sym]

\* C21: build_html_report never raises: for a symbol missing from the snapshot
\* or news maps, a snapshot without change_percent or with a change_percent of
\* None, a news item without title or url, or an absent summary, it returns a
\* report with a card for every symbol, filled with the fallback values.
C21_ReportNeverRaises ==
    mode = "build_html_report" =>
        /\ spc # "raised"
        /\ spc = "returned" =>
              /\ ~ret.exc
              /\ DictKeys(call.summaries)
                     = [i \in 1..Len(ret.value.stocks) |-> ret.value.stocks[i].symbol]
              /\ LET card == CardOf(ret.value, "BBB")
                     info == DictGet(call.stock_info, "BBB", NoInfo)
                 IN /\ "change_percent" \notin DOMAIN info =>
                           card.change_percent = Num(0) /\ card.change_class = "neutral"
                    /\ ("change_percent" \in DOMAIN info
                            /\ info.change_percent = NoneVal) =>
                           card.change_class = "neutral"
                    /\ info = NoInfo => card.company_name = "BBB"
                    /\ DictGet(call.news_data, "BBB", <<>>) = <<>> =>
                           card.news_links = <<>> /\ card.news_count = 0
                    /\ DictGet(call.summaries, "BBB", <<>>) = <<>> =>
                           card.summary_html = <<>>

PredOver == mode = "get_stock_prediction" /\ spc = "returned"

\* C22: get_stock_prediction never propagates a failure: when every LLM call
\* fails, or an unexpected exception occurs, it returns a short failure
\* string; it calls each model of its two-model list at most once, in list
\* order, with no retry and no backoff, and returns the text of the first
\* successful call.
C22_PredictionBestEffort ==
    mode = "get_stock_prediction" =>
        /\ spc # "raised"
        /\ probe.waits = <<>>
        /\ probe.clients <= 1
        /\ Len(probe.calls) <= Len(PredictionModels)
        /\ \A i \in 1..Len(probe.calls) : probe.calls[i].model = PredictionModels[i]
        /\ \A i \in 1..Len(probe.calls) :
              i < Len(probe.calls) => IsAPIError(probe.calls[i].kind)
        /\ PredOver =>
              LET made == Len(probe.calls)
                  last == probe.calls[made].kind
              IN /\ (made > 0 /\ last = "ok") <=> ret.site = "success"
                 /\ ret.site = "success" => ret.text = <<LLMText(call.symbol)>>
                 /\ ret.site # "success" =>
                       /\ ret.text \in {PredMissingKey, PredAllFailed}
                                       \cup {PredException(e) :
                                                e \in LLMOutcomes \cup {"other_long"}}
                       /\ Len(ret.text) <= 2
                 /\ (made = Len(PredictionModels) /\ IsAPIError(last)) =>
                       ret.text = PredAllFailed
                 /\ ret.text # <<>>

\* the first model was unavailable and the second answered
C22_Witness ==
    /\ PredOver
    /\ Len(probe.calls) = 2
    /\ probe.calls[1].kind = "rate"
    /\ probe.calls[2] = [model |-> "claude-sonnet-4-20250514", kind |-> "ok"]
    /\ ret = [site |-> "success", text |-> <<"Good quarter.">>]

\* C23: each card is built from its own symbol's data.  For symbols = [BBB]
\* with one news item, a snapshot with a change_percent of 3.50 and an LLM
\* returning "Good quarter.", the card has the change class "positive", a
\* summary containing "Good quarter." and no prediction; with several
\* symbols, the card of s carries the LLM text, the snapshot and the news
\* links of s and of no other symbol.
C23_CardOwnData ==
    ReportBuilt =>
        /\ \A i \in 1..Len(html_report.stocks) :
              LET card == html_report.stocks[i]
                  s == card.symbol
                  info == DictGet(stock_info, s, NoInfo)
                  news_list == DictGet(news_data, s, <<>>)
              IN /\ Has(symbols, s)
                 /\ card.summary = DictGet(summaries, s, <<>>)
                 /\ DictGet(seen.sites, s, None) = "success" =>
                       /\ Has(card.summary, LLMText(s))
                       /\ \A o \in SymbolNames \ {s} : ~Has(card.summary, LLMText(o))
                 /\ \A k \in 1..Len(card.summary) : card.summary[k] \notin SymbolNames \ {s}
                 /\ card.company_name = info.company_name
                 /\ card.change_percent = info.change_percent
                 /\ card.change_class = _get_change_class(info.change_percent).value
                 /\ s \in seen.info_raised <=>
                       (card.company_name = s /\ card.change_percent = Num(0))
                 /\ card.news_count = Len(news_list)
                 /\ \A k \in 1..Len(news_list) : news_list[k].symbol = s
                 /\ card.news_links =
                       [k \in 1..Len(news_list) |->
                           [title |-> news_list[k].title, url |-> ArticleUrl(s, k)]]
                 /\ card.prediction = {}
        /\ (symbols = <<"BBB">> /\ Len(DictGet(news_data, "BBB", <<>>)) = 1
               /\ DictGet(stock_info, "BBB", NoInfo).change_percent = Num(350)
               /\ DictGet(seen.sites, "BBB", None) = "success") =>
              /\ Len(html_report.stocks) = 1
              /\ Card("BBB").change_class = "positive"
              /\ Has(Card("BBB").summary, "Good quarter.")
              /\ Has(Card("BBB").summary_html[Len(Card("BBB").summary_html)].content,
                     "Good quarter.")
              /\ Card("BBB").prediction = {}

\* two cards: BBB's snapshot failed and the card falls back to the symbol,
\* CCC's card shows Acme's rise and CCC's article
C23_Witness ==
    /\ ReportBuilt
    /\ symbols = <<"BBB", "CCC">>
    /\ "BBB" \in seen.info_raised /\ "CCC" \notin seen.info_raised
    /\ Card("BBB").company_name = "BBB"
    /\ Card("CCC").change_percent = Num(350)
    /\ Card("CCC").news_links = <<[title |-> "X raises guidance",
                                   url |-> "https://news.example/ccc/1"]>>
    /\ Has(Card("CCC").summary, "Weak guidance.")
    /\ Has(Card("BBB").summary, "Good quarter.")

\* a step of summarize_stock_news, called on its own, in which model m was
\* called and the call ended as one of kinds
SumCalled(kinds) ==
    /\ mode = "sum"
    /\ probe'.calls = probe.calls + 1
    /\ probe'.lastCall[1].kind \in kinds

\* the sleeps made in a step
StepWaits == SubSeq(probe'.waits, Len(probe.waits) + 1, Len(probe'.waits))

\* C24: in summarize_stock_news, when a call to model m fails with a
\* rate-limit error, the next call of the invocation goes to the same model m
\* and only after a wait of retry_delay * 2^k, k being the zero-based index of
\* the current attempt; at most max_retries attempts are made.
C24_RateLimitSameModel ==
    [][SumCalled({"rate"}) =>
          /\ attempt < max_retries
          /\ spc' = "model" =>
                /\ models_to_try(call.base_url)[model_ix']
                      = probe'.lastCall[1].model
                /\ StepWaits = <<retry_delay * Pow2(attempt)>>
    ]_vars

\* C25: in summarize_stock_news, when a call to model m fails with a timeout,
\* the next call of the invocation goes to the same model m after a wait of
\* exactly retry_delay, whatever the attempt; at most max_retries attempts are
\* made.
C25_TimeoutSameModel ==
    [][SumCalled({"timeout"}) =>
          /\ attempt < max_retries
          /\ spc' = "model" =>
                /\ models_to_try(call.base_url)[model_ix']
                      = probe'.lastCall[1].model
                /\ StepWaits = <<retry_delay>>
    ]_vars

\* C26: in summarize_stock_news an error that is no rate limit, no timeout
\* and no authentication failure (another API error, or an exception of any
\* other type) is retried until max_retries attempts have been made; then the
\* formatted error is returned, with the type name of the last error and at
\* most 100 characters of its message.
C26_OtherErrorsRetried ==
    [][SumCalled({"api", "api_long", "other"}) =>
          LET e == probe'.lastCall[1].kind IN
          /\ attempt < max_retries
          /\ spc' = "returned" =>
                /\ attempt = max_retries - 1
                /\ ret'.site = "failed"
                /\ ret'.text = _format_error(call.symbol, call.symbol, call.language,
                                             <<"zh:API-call-failed: ", ExcClass(e), ": ",
                                               First100(ErrText(e))>>)
    ]_vars

\* the place of a model in the list of the call
ModelIndex(m) ==
    CHOOSE i \in 1..Len(models_to_try(call.base_url)) : models_to_try(call.base_url)[i] = m

\* C27: within one invocation of summarize_stock_news the models are called in
\* the order of the list: the first call of an attempt goes to the first
\* model, a later call of the attempt to the model after the one that just
\* failed; when a call fails with a model-unavailable API error and a later
\* model exists, the next call goes to the next model with no wait and in the
\* same attempt.
C27_ModelsInListOrder ==
    [][SumCalled(LLMOutcomes) =>
          LET models == models_to_try(call.base_url)
              cur == probe'.lastCall[1]
          IN /\ IF probe.lastCall = <<>> \/ probe.lastCall[1].attempt # cur.attempt
                THEN cur.model = models[1]
                ELSE /\ probe.lastCall[1].kind # "ok"
                     /\ ModelIndex(cur.model) = ModelIndex(probe.lastCall[1].model) + 1
             /\ (cur.kind \in {"api", "api_long"} /\ ModelIndex(cur.model) < Len(models)) =>
                   /\ spc' = "model"
                   /\ model_ix' = ModelIndex(cur.model) + 1
                   /\ attempt' = attempt
                   /\ StepWaits = <<>>
    ]_vars

\* the first model of the official list was unavailable in the first attempt:
\* the second model has been called, no wait was made
C27_Witness ==
    /\ mode = "sum"
    /\ probe.calls = 2
    /\ probe.kinds = {"api"}
    /\ probe.lastCall[1].model = "claude-sonnet-4-20250513"
    /\ probe.lastCall[1].attempt = 0
    /\ attempt = 0 /\ model_ix = 3
    /\ probe.waits = <<>>

\* C28: on success summarize_stock_news returns the header
\* "## <symbol> (<company_name>)" of the language, a blank line and the text
\* of the model unchanged, and exactly one wait of retry_delay lies between
\* the successful call and the return; a result returned without a
\* successful call (no news, no credential, an error) has no such wait.
C28_PacingAfterSuccess ==
    [][(mode = "sum" /\ spc # "returned" /\ spc' = "returned") =>
          IF ret'.site = "success"
          THEN /\ probe'.calls = probe.calls + 1
               /\ probe'.lastCall[1].kind = "ok"
               /\ StepWaits = <<retry_delay>>
               /\ ret'.text = (IF call.language = "zh"
                               THEN <<"## ", call.symbol, "zh:(", call.symbol, "zh:)">>
                               ELSE <<"## ", call.symbol, " (", call.symbol, ")">>)
                              \o <<"\n\n", LLMText(call.symbol)>>
          ELSE /\ "ok" \notin probe'.kinds
               /\ ret'.site \in {"no_news", "no_key"} =>
                     probe'.calls = 0 /\ probe'.waits = <<>>
               /\ probe'.calls = probe.calls => StepWaits = <<>>
    ]_vars

\* an English summary returned after one call: one wait, the pacing wait
C28_Witness ==
    /\ SumOver
    /\ ret.site = "success"
    /\ call.language = "en"
    /\ probe.calls = 1
    /\ probe.waits = <<retry_delay>>
    /\ ret.text = <<"## ", "BBB", " (", "BBB", ")", "\n\n", "Good quarter.">>

\* the calls of a run over symbols syms that goes through every stage
ExpectedLog(syms) ==
    [i \in 1..Len(syms) |-> Stage("news", syms[i])]
    \o [i \in 1..Len(syms) |-> Stage("info", syms[i])]
    \o [i \in 1..Len(syms) |-> Stage("summarize", syms[i])]
    \o <<Stage("report", None), Stage("email", None)>>

IsPrefix(a, b) == Len(a) <= Len(b) /\ a = SubSeq(b, 1, Len(a))

\* the number of calls of a stage in a log
StageCount(log, stage) == Cardinality({i \in 1..Len(log) : log[i].stage = stage})

FetchOver == mode = "fetch_news" /\ spc = "returned"

\* the places of the calls of the primary source in a log
PrimaryCalls(log) == {i \in 1..Len(log) : log[i] = CallEvent("finnhub")}

\* the sleeps of a log between the places a and b
SleepsBetween(log, a, b) ==
    SelectSeq(SubSeq(log, a + 1, b - 1), LAMBDA event : event.kind = "sleep")

\* C30: in fetch_news with a credential for the primary source, a sleep of
\* 1.1 s lies between any two consecutive calls of the primary source,
\* whatever the outcome of the call before it, and no sleep follows the call
\* for the last symbol; without the credential nothing sleeps.
C30_PacingBetweenPrimaryCalls ==
    mode = "fetch_news" =>
        LET log == seen.log
            calls == PrimaryCalls(log)
        IN /\ \A a, b \in calls :
                 (a < b /\ \A c \in calls : ~(a < c /\ c < b)) =>
                     SleepsBetween(log, a, b) = <<SleepEvent(FinnhubPacingMs)>>
           /\ \A a \in calls : a < Len(log) =>
                 \/ log[a + 1] = SleepEvent(FinnhubPacingMs)
                 \/ Cardinality(calls) = Len(call.symbols)
                       /\ \A c \in calls : c <= a
           /\ \A i \in 1..Len(log) :
                 log[i].kind = "sleep" => i > 1 /\ log[i - 1] = CallEvent("finnhub")
           /\ call.finnhub_api_key = None =>
                 \A i \in 1..Len(log) : log[i] = CallEvent("yfinance")
           /\ FetchOver =>
                 /\ call.finnhub_api_key # None => Cardinality(calls) = Len(call.symbols)
                 /\ \A a \in calls :
                       (\A c \in calls : c <= a) =>
                           SleepsBetween(log, a, Len(log) + 1) = <<>>
                 /\ Len(SelectSeq(log, LAMBDA event : event.kind = "sleep"))
                       = (IF call.finnhub_api_key = None THEN 0
                          ELSE Len(call.symbols) - 1)

\* two symbols: the primary source raised for the first and the secondary
\* source was asked after the sleep; nothing sleeps after the second call
C30_Witness ==
    /\ FetchOver
    /\ Len(call.symbols) = 2
    /\ "BBB" \in seen.fetch_raised
    /\ seen.log = <<CallEvent("finnhub"), SleepEvent(1100), CallEvent("yfinance"),
                    CallEvent("finnhub")>>

MarkdownOver == mode = "_markdown_to_html" /\ spc = "returned"

\* the list markers of Markdown: a dash, a star, or an item number
NumberedMarkers == {"1. ", "2. ", "3. ", "4. "}
IsListMarker(token) == token \in {"- ", "* "} \cup NumberedMarkers

\* the list items and paragraphs of a result, without the list brackets
Blocks(elements) == SelectSeq(elements, LAMBDA e : e.tag \in {"li", "p"})

\* the lines of a text that are not empty, after the inline replacements
TextLines(text) ==
    SelectSeq([i \in 1..Len(SplitLines(Bold(Headings(Breaks(text))))) |->
                  Strip(SplitLines(Bold(Headings(Breaks(text))))[i])],
              LAMBDA line : line # <<>>)

\* the block a line has to become: a list item without its marker when it
\* starts with one of the markers, a paragraph otherwise
BlockOf(line, markers) ==
    IF Head(line) \in markers
    THEN Element("li", Tail(line))
    ELSE Element("p", line)

\* C31: every line that starts with a list marker ("- ", "* " or "N. " for
\* any item number N) becomes a list item without the marker, every other
\* non-empty line a paragraph, one block per line in the order of the lines.
C31_MarkdownLines ==
    MarkdownOver =>
        LET lines == TextLines(call.markdown_text)
            blocks == Blocks(ret.value)
        IN /\ Len(blocks) = Len(lines)
           /\ \A i \in 1..Len(lines) :
                 blocks[i] = BlockOf(lines[i], {"- ", "* "} \cup NumberedMarkers)

\* What the converter does: the same with the item numbers 1, 2 and 3 only,
\* and the items of a run of marker lines between one pair of list brackets.
MarkdownKnownMarkers ==
    MarkdownOver =>
        LET lines == TextLines(call.markdown_text)
            blocks == Blocks(ret.value)
        IN /\ Len(blocks) = Len(lines)
           /\ \A i \in 1..Len(lines) :
                 blocks[i] = BlockOf(lines[i], {"- "} \cup OtherMarkers)
           /\ Len(SelectSeq(ret.value, LAMBDA e : e.tag = "ul"))
                 = Len(SelectSeq(ret.value, LAMBDA e : e.tag = "/ul"))

\* a list of three items whose third is numbered 4
MarkdownFourthItem ==
    /\ MarkdownOver
    /\ call.lines = <<<<"1. ", "First point.">>, <<"* ", "Margin flat.">>,
                      <<"4. ", "Fourth point.">>>>
    /\ ret.value = <<Element("ul", <<>>),
                     Element("li", <<"First point.", "</h3>">>),
                     Element("li", <<"Margin flat.">>),
                     Element("/ul", <<>>),
                     Element("p", <<"4. ", "Fourth point.">>)>>

\* the symbol a step of one of the three per-symbol loops is processing
Processing ==
    IF mode = "run" /\ pc \in {"news", "info", "summarize"} /\ idx \in 1..Len(symbols)
    THEN {symbols[idx]} ELSE {}

\* every entry of the dict d is in the dict e with the same value, except
\* possibly those of the keys in free, which are still entries of e
KeepsEntries(d, e, free) ==
    \A i \in 1..Len(d) :
        \E j \in 1..Len(e) :
            /\ e[j][1] = d[i][1]
            /\ d[i][1] \notin free => e[j][2] = d[i][2]

\* the keys that e holds and d does not
NewKeys(d, e) == {e[j][1] : j \in 1..Len(e)} \ {d[i][1] : i \in 1..Len(d)}

\* the symbol processed was already processed by the same loop of this run
Repeated ==
    {s \in Processing : \E i \in 1..(idx - 1) : symbols[i] = s}

\* C32: processing a symbol writes only that symbol's entry of the news,
\* snapshot and summary maps, and an entry once written is never changed or
\* removed for the rest of the run.
C32_MapsAppendOnly ==
    [][ mode = "run" =>
          /\ KeepsEntries(news_data, news_data', {})
          /\ KeepsEntries(stock_info, stock_info', {})
          /\ KeepsEntries(summaries, summaries', {})
          /\ NewKeys(news_data, news_data') \subseteq Processing
          /\ NewKeys(stock_info, stock_info') \subseteq Processing
          /\ NewKeys(summaries, summaries') \subseteq Processing
    ]_vars

\* C32 as the code has it: a step writes only the entry of the symbol it
\* processes and no entry is ever removed; an entry keeps its value unless
\* the list names its symbol again, the later occurrence then overwrites it.
C32_MapsKeyedBySymbol ==
    [][ mode = "run" =>
          /\ KeepsEntries(news_data, news_data', Repeated)
          /\ KeepsEntries(stock_info, stock_info', Repeated)
          /\ KeepsEntries(summaries, summaries', Repeated)
          /\ NewKeys(news_data, news_data') \subseteq Processing
          /\ NewKeys(stock_info, stock_info') \subseteq Processing
          /\ NewKeys(summaries, summaries') \subseteq Processing
    ]_vars

\* the snapshot of CCC failed after BBB's was stored, the summary of CCC
\* failed after BBB's was stored: the entries of BBB are still there
C32_Witness ==
    /\ RunOver
    /\ symbols = <<"BBB", "CCC">>
    /\ seen.info_raised = {"CCC"}
    /\ DictKeys(stock_info) = symbols
    /\ DictGet(stock_info, "BBB", FallbackInfo("BBB")) # FallbackInfo("BBB")
    /\ DictKeys(summaries) = symbols
    /\ DictGet(seen.sites, "BBB", None) = "success"
    /\ DictGet(seen.sites, "CCC", None) # "success"
    /\ DictKeys(news_data) = symbols

\* C33: every invocation of summarize_stock_news returns, whatever the LLM
\* calls do, after at most max_retries times the number of models of the
\* priority list LLM calls (9 on the official endpoint, 6 on a proxy) and at
\* most max_retries waits.
C33_SummarizerTerminates ==
    /\ <>SumOver
    /\ [](/\ probe.calls <= max_retries * Len(models_to_try(call.base_url))
          /\ probe.calls <= (IF call.base_url = OfficialUrl THEN 9 ELSE 6)
          /\ Len(probe.waits) <= max_retries)

\* every model of the official list failed in every iteration, each time with
\* a rate limit at the last model: nine calls, three waits, the error text
C33_Witness ==
    /\ SumOver
    /\ call.base_url = OfficialUrl
    /\ probe.calls = 9
    /\ Len(probe.waits) = 3
    /\ ret.site = "failed"

SuppliedBy(source) ==
    IF probe.step.asked # <<>> /\ probe.step.asked[Len(probe.step.asked)] = source
    THEN (IF source = "finnhub" THEN probe.primary.items ELSE probe.secondary.items)
    ELSE <<>>

\* the item made of the raw item is in the news set of the symbol
InNewsSet(raw) ==
    \E j \in 1..Len(DictGet(news_data, probe.symbol, <<>>)) :
        LET item == DictGet(news_data, probe.symbol, <<>>)[j]
        IN item.url = raw.url /\ item.title = raw.title /\ item.source = raw.source

\* every raw item without a publish time that the source supplied is kept
KeepsUndated(source) ==
    (FetchStepDone /\ call.days_back > 0) =>
        \A i \in 1..Len(SuppliedBy(source)) :
            SuppliedBy(source)[i].time = Missing => InNewsSet(SuppliedBy(source)[i])

\* C35: an item whose raw data carries no publish time is kept by the recency
\* filter whichever source supplied it: a primary-source item without
\* datetime and a secondary-source item without providerPublishTime are both
\* in the news set of the symbol for every days_back > 0.
C35_UndatedItemsKept == KeepsUndated("finnhub") /\ KeepsUndated("yfinance")

\* What the code does for the secondary source: an item without
\* providerPublishTime is kept for every days_back > 0.
UndatedSecondaryKept == KeepsUndated("yfinance")

\* the primary source supplied one item without datetime, days_back = 41: the
\* item is dated 1970-01-01 00:00 and the news set of the symbol is empty
UndatedPrimaryDropped ==
    /\ FetchStepDone
    /\ call.days_back = 41
    /\ probe.step.asked = <<"finnhub">>
    /\ Len(probe.primary.items) = 1 /\ probe.primary.items[1].time = Missing
    /\ probe.step.unfiltered[1].published_at = [parsable |-> TRUE, minute |-> 0]
    /\ DictGet(news_data, probe.symbol, <<"none">>) = <<>>

\* the secondary source supplied an item without providerPublishTime after
\* one published at the cutoff, days_back = 1: both are in the news set
UndatedSecondaryWitness ==
    /\ FetchStepDone
    /\ call.days_back = 1
    /\ probe.step.asked = <<"finnhub", "yfinance">>
    /\ Len(probe.secondary.items) = 2 /\ probe.secondary.items[2].time = Missing
    /\ Len(DictGet(news_data, probe.symbol, <<>>)) = 2

\* the configuration that differs from c in the prediction flag only
OtherFlag(c) == [c EXCEPT !.ENABLE_PREDICTION = ~@]

\* no card of the report has a prediction block or a trend badge
NoPredictionShown ==
    \A i \in 1..Len(html_report.stocks) :
        /\ html_report.stocks[i].prediction = {}
        /\ html_report.stocks[i].trend_badge = None
        /\ html_report.stocks[i].trend_class = None

FlagOffRun ==
    /\ RunOver
    /\ ~cfg.ENABLE_PREDICTION
    /\ result.returned /\ result.success
    /\ symbols = <<"BBB", "CCC">>
    /\ DictGet(seen.sites, "BBB", None) = "success"
    /\ DictGet(seen.sites, "CCC", None) = "success"
    /\ Len(html_report.stocks) = 2

====
